---- MODULE Spec2Model ----
(***************************************************************************)
(* Model of src/src/posthog-llm.ts: the process-wide PostHogLLM class and  *)
(* the four tracing entities Trace, Span, Generation and Embedding.        *)
(*                                                                         *)
(* JavaScript values are records [t, s, b, n]: t is the runtime type, s a  *)
(* string payload, b a boolean payload, n a number payload.  An object or  *)
(* an array is carried by its JSON text (s); an Error instance by its      *)
(* message.  An optional map (properties) is a sequence of length 0        *)
(* (undefined) or 1 (the object); inside a map a key is bound to a         *)
(* sequence of length 0 (no such key) or 1 (its value).                    *)
(***************************************************************************)
EXTENDS Integers, Sequences, FiniteSets, TLC

VARIABLES
    serverSide,  \* typeof window === "undefined" in this process
    options,     \* PostHogLLM.options
    client,      \* PostHogLLM.client: 0 is null, n > 0 the n-th handle built
    clientArgs,  \* the apiKey and host PostHogLLM.client was built with
    units,       \* the entities constructed so far, in construction order
    sink,        \* the capture() calls received by the PostHog client
    now,         \* Date.now(), in milliseconds
    uuids,       \* number of uuidv4() values drawn so far
    raised,      \* message of the Error thrown by the last call, "" if none
    hist,        \* history, per unit: who created it and with which maps
    ends         \* history: the end() calls made so far

vars == <<serverSide, options, client, clientArgs, units, sink, now, uuids, raised, hist, ends>>

\* ------------------------------------------------------ JavaScript values

Undefined == [t |-> "undefined", s |-> "", b |-> FALSE, n |-> 0]

Str(x) == [t |-> "string", s |-> x, b |-> FALSE, n |-> 0]

Bool(x) == [t |-> "boolean", s |-> "", b |-> x, n |-> 0]

Num(k) == [t |-> "number", s |-> "", b |-> FALSE, n |-> k]

\* a plain object, carried by its JSON text
Obj(json) == [t |-> "object", s |-> json, b |-> FALSE, n |-> 0]

\* an array, carried by its JSON text
Arr(json) == [t |-> "array", s |-> json, b |-> FALSE, n |-> 0]

\* new Error(msg)
Err(msg) == [t |-> "error", s |-> msg, b |-> FALSE, n |-> 0]

\* the typeof operator
TypeOf(v) == IF v.t \in {"object", "array", "error"} THEN "object" ELSE v.t

\* ToBoolean, as applied by if (...), && and ||
Truthy(v) ==
    CASE v.t = "undefined" -> FALSE
      [] v.t = "string" -> v.s # ""
      [] v.t = "boolean" -> v.b
      [] v.t = "number" -> v.n # 0
      [] OTHER -> TRUE

\* a || b
OrElse(a, b) == IF Truthy(a) THEN a ELSE b

\* a ?? b
Coalesce(a, b) == IF a.t = "undefined" THEN b ELSE a

\* JSON.stringify(v): an Error instance has no enumerable own property
JSONstringify(v) ==
    CASE v.t = "undefined" -> Undefined
      [] v.t = "string" -> Str("\"" \o v.s \o "\"")
      [] v.t = "boolean" -> Str(IF v.b THEN "true" ELSE "false")
      [] v.t = "number" -> Str(ToString(v.n))
      [] v.t = "error" -> Str("{}")
      [] OTHER -> Str(v.s)

\* v.toString() of a string
ToStringOf(v) == IF v.t = "string" THEN v ELSE Str(ToString(v.n))

\* ------------------------------------------------------- property maps

PropKeys ==
    {"a", "b", "$ai_input_state", "$ai_output_state", "$ai_trace_id", "$ai_metadata"}

None == << >>

Some(x) == <<x>>

EmptyMap == [k \in PropKeys |-> None]

\* { ...m } of an optional map: undefined spreads to nothing
Spread(m) == IF m = None THEN EmptyMap ELSE m[1]

Keys(m) == {k \in PropKeys : Spread(m)[k] # None}

MergeMaps_parentWins(a, b) ==
    [k \in PropKeys |-> IF Spread(a)[k] # None THEN Spread(a)[k] ELSE Spread(b)[k]]

\* { ...a, ...b }: the keys of b overwrite those of a
MergeMaps(a, b) ==
    [k \in PropKeys |-> IF Spread(b)[k] # None THEN Spread(b)[k] ELSE Spread(a)[k]]

\* ------------------------------------------------------------ metadata

\* A metadata object is the sequence of its <<key, value>> entries in
\* insertion order (the order JSON.stringify writes them in).
MetaHas(m, k) == \E i \in 1..Len(m) : m[i][1] = k

MetaGet(m, k) == (CHOOSE i \in 1..Len(m) : m[i][1] = k)

RECURSIVE MetaPutAll(_, _)
\* Object spread of the entries b over the object a: a present key keeps its
\* place and takes the new value, a new key is appended
MetaPutAll(a, b) ==
    IF b = << >> THEN a
    ELSE LET e == Head(b)
             a1 == IF MetaHas(a, e[1])
                   THEN [a EXCEPT ![MetaGet(a, e[1])] = e]
                   ELSE Append(a, e)
         IN MetaPutAll(a1, Tail(b))

\* { ...a, ...b } of two optional metadata objects
MergeMeta(a, b) ==
    MetaPutAll(IF a = None THEN << >> ELSE a[1], IF b = None THEN << >> ELSE b[1])

RECURSIVE MetaEntries(_)
MetaEntries(m) ==
    IF m = << >> THEN ""
    ELSE "\"" \o Head(m)[1] \o "\":\"" \o Head(m)[2] \o "\""
         \o (IF Len(m) > 1 THEN "," ELSE "") \o MetaEntries(Tail(m))

\* JSON.stringify(this.metadata)
MetaJSON(m) == Str("{" \o MetaEntries(m) \o "}")

\* --------------------------------------------------------------- options

\* TraceOptions with no field set
NoTraceOptions ==
    [id |-> Undefined, name |-> Undefined, inputState |-> Undefined,
     outputState |-> Undefined, privacy |-> Undefined, userEmail |-> Undefined,
     distinctId |-> Undefined, metadata |-> None, properties |-> None,
     isError |-> Undefined, error |-> Undefined]

\* SpanOptions with no field set
NoSpanOptions ==
    [id |-> Undefined, name |-> Undefined, inputState |-> Undefined,
     outputState |-> Undefined, metadata |-> None, properties |-> None,
     error |-> Undefined, isError |-> Undefined, distinctId |-> Undefined]

\* GenerationOptions with no field set
NoGenerationOptions ==
    [name |-> Undefined, model |-> Undefined, provider |-> Undefined,
     input |-> Undefined, output |-> Undefined, inputTokens |-> Undefined,
     outputTokens |-> Undefined, latency |-> Undefined, httpStatus |-> Undefined,
     baseUrl |-> Undefined, metadata |-> None, properties |-> None,
     error |-> Undefined, isError |-> Undefined, distinctId |-> Undefined]

\* EmbeddingOptions with no field set
NoEmbeddingOptions ==
    [name |-> Undefined, model |-> Undefined, provider |-> Undefined,
     input |-> Undefined, inputTokens |-> Undefined, latency |-> Undefined,
     httpStatus |-> Undefined, baseUrl |-> Undefined, metadata |-> None,
     properties |-> None, error |-> Undefined, isError |-> Undefined,
     distinctId |-> Undefined]

\* TraceEndOptions / SpanEndOptions with no field set (also: no argument);
\* latency is a key these types do not declare and a caller may still pass
NoEndOptions ==
    [outputState |-> Undefined, error |-> Undefined, isError |-> Undefined,
     latency |-> Undefined]

\* GenerationEndOptions with no field set (also: no argument)
NoGenerationEndOptions ==
    [output |-> Undefined, inputTokens |-> Undefined, outputTokens |-> Undefined,
     latency |-> Undefined, httpStatus |-> Undefined, error |-> Undefined,
     isError |-> Undefined]

\* EmbeddingEndOptions with no field set (also: no argument)
NoEmbeddingEndOptions ==
    [inputTokens |-> Undefined, latency |-> Undefined, httpStatus |-> Undefined,
     error |-> Undefined, isError |-> Undefined]

\* PostHogLLMOptions: each key is absent (None) or present (Some(value))
NoPostHogLLMOptions ==
    [apiKey |-> None, host |-> None, defaultPrivacyMode |-> None,
     defaultDistinctId |-> None]

\* ----------------------------------------------------------------- units

\* The fields of the four classes in one record; a field a class does not
\* declare stays Undefined / None.
BlankUnit ==
    [kind |-> "", id |-> Undefined, traceId |-> Undefined, parentId |-> Undefined,
     name |-> Undefined, startTime |-> 0, inputState |-> Undefined,
     outputState |-> Undefined, privacy |-> Undefined, distinctId |-> Undefined,
     metadata |-> None, properties |-> None, isError |-> Bool(FALSE),
     error |-> Undefined, model |-> Undefined, provider |-> Undefined,
     input |-> Undefined, output |-> Undefined, inputTokens |-> Undefined,
     outputTokens |-> Undefined, latency |-> Undefined, httpStatus |-> Undefined,
     baseUrl |-> Undefined]

\* the k-th value uuidv4() returns
\* a generator that returns one value every time
Uuid_repeats(k) == Str("uuid-0")

Uuid(k) == Str("uuid-" \o ToString(k))

NoDistinctIdTrace == "A user email (userEmail) is required for PostHog tracing"

NoDistinctIdSpan == "Span must have a distinctId (passed from trace)"

NoDistinctIdGeneration == "Generation must have a distinctId (passed from trace)"

NoDistinctIdEmbedding == "Embedding must have a distinctId (passed from trace)"

TraceCtor_neverThrows(o, uuid, t) ==
    [thrown |-> "",
     unit |-> [BlankUnit EXCEPT
         !.kind = "trace",
         !.id = OrElse(o.id, uuid),
         !.name = o.name,
         !.startTime = t,
         !.privacy = Coalesce(o.privacy, Bool(FALSE)),
         !.distinctId = IF Truthy(o.userEmail) THEN o.userEmail ELSE o.distinctId]]

\* new Trace(o) at time t, uuidv4() returning uuid: the Error thrown ("" if
\* none) and the object built
TraceCtor(o, uuid, t) ==
    [thrown |-> IF Truthy(o.userEmail) \/ Truthy(o.distinctId) THEN ""
                ELSE NoDistinctIdTrace,
     unit |-> [BlankUnit EXCEPT
         !.kind = "trace",
         !.id = OrElse(o.id, uuid),
         !.name = o.name,
         !.startTime = t,
         !.inputState = o.inputState,
         !.outputState = o.outputState,
         !.privacy = Coalesce(o.privacy, Bool(FALSE)),
         !.distinctId = IF Truthy(o.userEmail) THEN o.userEmail ELSE o.distinctId,
         !.metadata = o.metadata,
         !.properties = o.properties,
         !.isError = OrElse(o.isError, Bool(FALSE)),
         !.error = o.error]]

\* new Span(traceId, parentId, o)
\* SpanCtor with a check of the name next to the check of the distinct id
SpanCtor_requiresName(traceId, parentId, o, uuid, t) ==
    [thrown |-> IF Truthy(o.distinctId) /\ Truthy(o.name) THEN "" ELSE NoDistinctIdSpan,
     unit |-> [BlankUnit EXCEPT
         !.kind = "span",
         !.id = OrElse(o.id, uuid),
         !.traceId = traceId,
         !.parentId = parentId,
         !.name = o.name,
         !.distinctId = o.distinctId,
         !.startTime = t,
         !.inputState = o.inputState,
         !.outputState = o.outputState,
         !.metadata = o.metadata,
         !.properties = o.properties,
         !.isError = OrElse(o.isError, Bool(FALSE)),
         !.error = o.error]]

SpanCtor(traceId, parentId, o, uuid, t) ==
    [thrown |-> IF Truthy(o.distinctId) THEN "" ELSE NoDistinctIdSpan,
     unit |-> [BlankUnit EXCEPT
         !.kind = "span",
         !.id = OrElse(o.id, uuid),
         !.traceId = traceId,
         !.parentId = parentId,
         !.name = o.name,
         !.distinctId = o.distinctId,
         !.startTime = t,
         !.inputState = o.inputState,
         !.outputState = o.outputState,
         !.metadata = o.metadata,
         !.properties = o.properties,
         !.isError = OrElse(o.isError, Bool(FALSE)),
         !.error = o.error]]

\* new Generation(traceId, o)
GenerationCtor(traceId, o, t) ==
    [thrown |-> IF Truthy(o.distinctId) THEN "" ELSE NoDistinctIdGeneration,
     unit |-> [BlankUnit EXCEPT
         !.kind = "generation",
         !.traceId = traceId,
         !.name = o.name,
         !.distinctId = o.distinctId,
         !.startTime = t,
         !.model = o.model,
         !.provider = o.provider,
         !.input = o.input,
         !.output = o.output,
         !.inputTokens = o.inputTokens,
         !.outputTokens = o.outputTokens,
         !.httpStatus = o.httpStatus,
         !.baseUrl = o.baseUrl,
         !.metadata = o.metadata,
         !.properties = o.properties,
         !.isError = OrElse(o.isError, Bool(FALSE)),
         !.error = o.error]]

\* new Embedding(traceId, o)
EmbeddingCtor(traceId, o, t) ==
    [thrown |-> IF Truthy(o.distinctId) THEN "" ELSE NoDistinctIdEmbedding,
     unit |-> [BlankUnit EXCEPT
         !.kind = "embedding",
         !.traceId = traceId,
         !.name = o.name,
         !.distinctId = o.distinctId,
         !.startTime = t,
         !.model = o.model,
         !.provider = o.provider,
         !.input = o.input,
         !.inputTokens = o.inputTokens,
         !.httpStatus = o.httpStatus,
         !.baseUrl = o.baseUrl,
         !.metadata = o.metadata,
         !.properties = o.properties,
         !.isError = OrElse(o.isError, Bool(FALSE)),
         !.error = o.error]]

\* ---------------------------------------------------------------- update

\* Trace.update(o)
\* an update that takes an id as well
TraceUpdate_takesId(u, o) ==
    [u EXCEPT
        !.id = IF Truthy(o.id) THEN o.id ELSE @,
        !.name = IF Truthy(o.name) THEN o.name ELSE @,
        !.inputState = IF Truthy(o.inputState) THEN o.inputState ELSE @,
        !.outputState = IF Truthy(o.outputState) THEN o.outputState ELSE @,
        !.properties = IF o.properties # None
                       THEN Some(MergeMaps(@, o.properties)) ELSE @,
        !.metadata = IF o.metadata # None
                     THEN Some(MergeMeta(@, o.metadata)) ELSE @,
        !.privacy = IF o.privacy.t # "undefined" THEN o.privacy ELSE @,
        !.isError = IF o.isError.t # "undefined" THEN o.isError ELSE @,
        !.error = IF Truthy(o.error) THEN o.error ELSE @]

TraceUpdate(u, o) ==
    [u EXCEPT
        !.name = IF Truthy(o.name) THEN o.name ELSE @,
        !.inputState = IF Truthy(o.inputState) THEN o.inputState ELSE @,
        !.outputState = IF Truthy(o.outputState) THEN o.outputState ELSE @,
        !.properties = IF o.properties # None
                       THEN Some(MergeMaps(@, o.properties)) ELSE @,
        !.metadata = IF o.metadata # None
                     THEN Some(MergeMeta(@, o.metadata)) ELSE @,
        !.privacy = IF o.privacy.t # "undefined" THEN o.privacy ELSE @,
        !.isError = IF o.isError.t # "undefined" THEN o.isError ELSE @,
        !.error = IF Truthy(o.error) THEN o.error ELSE @]

\* Span.update(o)
SpanUpdate(u, o) ==
    [u EXCEPT
        !.name = IF Truthy(o.name) THEN o.name ELSE @,
        !.inputState = IF Truthy(o.inputState) THEN o.inputState ELSE @,
        !.outputState = IF Truthy(o.outputState) THEN o.outputState ELSE @,
        !.metadata = IF o.metadata # None
                     THEN Some(MergeMeta(@, o.metadata)) ELSE @,
        !.isError = IF o.isError.t # "undefined" THEN o.isError ELSE @,
        !.error = IF Truthy(o.error) THEN o.error ELSE @]

\* Generation.update(o)
GenerationUpdate(u, o) ==
    [u EXCEPT
        !.name = IF Truthy(o.name) THEN o.name ELSE @,
        !.model = IF Truthy(o.model) THEN o.model ELSE @,
        !.provider = IF Truthy(o.provider) THEN o.provider ELSE @,
        !.input = IF Truthy(o.input) THEN o.input ELSE @,
        !.output = IF Truthy(o.output) THEN o.output ELSE @,
        !.inputTokens = IF o.inputTokens.t # "undefined" THEN o.inputTokens ELSE @,
        !.outputTokens = IF o.outputTokens.t # "undefined" THEN o.outputTokens ELSE @,
        !.httpStatus = IF o.httpStatus.t # "undefined" THEN o.httpStatus ELSE @,
        !.baseUrl = IF Truthy(o.baseUrl) THEN o.baseUrl ELSE @,
        !.metadata = IF o.metadata # None
                     THEN Some(MergeMeta(@, o.metadata)) ELSE @,
        !.isError = IF o.isError.t # "undefined" THEN o.isError ELSE @,
        !.error = IF Truthy(o.error) THEN o.error ELSE @]

\* ------------------------------------------------------------------- end

\* (endTime - startTime) / 1000: a duration is held in thousandths of a
\* second, so that the quotient stays an integer
Elapsed(startTime, endTime) == Num(endTime - startTime)

\* the overrides of Trace.end(o) and of Span.end(o)
EndOverrides(u, o) ==
    [u EXCEPT
        !.outputState = IF Truthy(o.outputState) THEN o.outputState ELSE @,
        !.error = IF Truthy(o.error) THEN o.error ELSE @,
        !.isError = IF o.isError.t # "undefined" THEN o.isError ELSE @]

\* overrides that keep a latency the unit already holds
GenerationEndOverrides_keepsLatency(u, o, endTime) ==
    [u EXCEPT
        !.latency = IF o.latency.t # "undefined" THEN o.latency
                    ELSE IF u.latency.t # "undefined" THEN u.latency
                    ELSE Elapsed(u.startTime, endTime),
        !.output = IF Truthy(o.output) THEN o.output ELSE @,
        !.outputTokens = IF o.outputTokens.t # "undefined" THEN o.outputTokens ELSE @,
        !.httpStatus = IF o.httpStatus.t # "undefined" THEN o.httpStatus ELSE @,
        !.error = IF Truthy(o.error) THEN o.error ELSE @,
        !.isError = IF o.isError.t # "undefined" THEN o.isError ELSE @]

GenerationEndOverrides_measured(u, o, endTime) ==
    [u EXCEPT
        !.latency = Elapsed(u.startTime, endTime),
        !.output = IF Truthy(o.output) THEN o.output ELSE @,
        !.outputTokens = IF o.outputTokens.t # "undefined" THEN o.outputTokens ELSE @,
        !.httpStatus = IF o.httpStatus.t # "undefined" THEN o.httpStatus ELSE @,
        !.error = IF Truthy(o.error) THEN o.error ELSE @,
        !.isError = IF o.isError.t # "undefined" THEN o.isError ELSE @]

\* the latency assignment and the overrides of Generation.end(o)
GenerationEndOverrides(u, o, endTime) ==
    [u EXCEPT
        !.latency = IF o.latency.t # "undefined" THEN o.latency
                    ELSE Elapsed(u.startTime, endTime),
        !.output = IF Truthy(o.output) THEN o.output ELSE @,
        !.outputTokens = IF o.outputTokens.t # "undefined" THEN o.outputTokens ELSE @,
        !.httpStatus = IF o.httpStatus.t # "undefined" THEN o.httpStatus ELSE @,
        !.error = IF Truthy(o.error) THEN o.error ELSE @,
        !.isError = IF o.isError.t # "undefined" THEN o.isError ELSE @]

\* the latency assignment and the overrides of Embedding.end(o)
EmbeddingEndOverrides(u, o, endTime) ==
    [u EXCEPT
        !.latency = IF o.latency.t # "undefined" THEN o.latency
                    ELSE Elapsed(u.startTime, endTime),
        !.httpStatus = IF o.httpStatus.t # "undefined" THEN o.httpStatus ELSE @,
        !.error = IF Truthy(o.error) THEN o.error ELSE @,
        !.isError = IF o.isError.t # "undefined" THEN o.isError ELSE @]

\* ------------------------------------------------------- event assembly

ReservedKeys ==
    {"$ai_trace_id", "$ai_span_id", "$ai_span_name", "$ai_parent_id",
     "$ai_latency", "$ai_is_error", "$ai_input_state", "$ai_output_state",
     "$ai_metadata", "$ai_error", "$ai_model", "$ai_provider", "$ai_input",
     "$ai_output_choices", "$ai_input_tokens", "$ai_output_tokens",
     "$ai_http_status", "$ai_base_url"}

EventKeys == ReservedKeys \cup PropKeys

\* const properties = {}
NoFields == [k \in EventKeys |-> None]

\* properties[k] = v
Put(p, k, v) == [p EXCEPT ![k] = Some(v)]

\* if (c) properties[k] = v
PutIf(c, p, k, v) == IF c THEN Put(p, k, v) ELSE p

\* ...this.properties inside the object literal
\* a spread that leaves the fields already written as they are
SpreadProps_keepsFields(p, m) ==
    [k \in EventKeys |->
        IF k \in PropKeys /\ Spread(m)[k] # None /\ p[k] = None
        THEN Some(Str(Spread(m)[k][1]))
        ELSE p[k]]

\* { ...p, ...this.properties }
SpreadProps(p, m) ==
    [k \in EventKeys |->
        IF k \in PropKeys /\ Spread(m)[k] # None THEN Some(Str(Spread(m)[k][1]))
        ELSE p[k]]

\* typeof error === "object" ? JSON.stringify(error) : error.toString()
ErrorText(e) == IF TypeOf(e) = "object" THEN JSONstringify(e) ELSE ToStringOf(e)

ErrorField_ignoresFlag(p, u) ==
    PutIf(Truthy(u.error), p, "$ai_error", ErrorText(u.error))

\* if (this.isError && this.error) properties.$ai_error = ...
ErrorField(p, u) ==
    PutIf(Truthy(u.isError) /\ Truthy(u.error), p, "$ai_error", ErrorText(u.error))

\* if (this.metadata) properties.$ai_metadata = JSON.stringify(this.metadata)
MetadataField(p, u) ==
    PutIf(u.metadata # None, p, "$ai_metadata",
          IF u.metadata = None THEN Undefined ELSE MetaJSON(u.metadata[1]))

\* the inputState / outputState assignments of Trace.end and Span.end
StateFields(p, u) ==
    LET p1 == PutIf(Truthy(u.inputState), p, "$ai_input_state",
                    JSONstringify(u.inputState))
    IN PutIf(Truthy(u.outputState), p1, "$ai_output_state",
             JSONstringify(u.outputState))

\* a Trace.end that decides by the process-wide default
TraceProperties_byDefault(u, latency) ==
    LET p0 == Put(Put(Put(Put(Put(NoFields,
                  "$ai_trace_id", u.id),
                  "$ai_span_id", u.id),
                  "$ai_span_name", u.name),
                  "$ai_latency", latency),
                  "$ai_is_error", u.isError)
        p1 == SpreadProps(p0, u.properties)
        p2 == IF ~Truthy(options.defaultPrivacyMode) THEN StateFields(p1, u) ELSE p1
    IN ErrorField(MetadataField(p2, u), u)

TraceProperties_noPrivacy(u, latency) ==
    LET p0 == Put(Put(Put(Put(Put(NoFields,
                  "$ai_trace_id", u.id),
                  "$ai_span_id", u.id),
                  "$ai_span_name", u.name),
                  "$ai_latency", latency),
                  "$ai_is_error", u.isError)
    IN ErrorField(MetadataField(StateFields(SpreadProps(p0, u.properties), u), u), u)

\* the properties object of Trace.end
TraceProperties(u, latency) ==
    LET p0 == Put(Put(Put(Put(Put(NoFields,
                  "$ai_trace_id", u.id),
                  "$ai_span_id", u.id),
                  "$ai_span_name", u.name),
                  "$ai_latency", latency),
                  "$ai_is_error", u.isError)
        p1 == SpreadProps(p0, u.properties)
        p2 == IF ~Truthy(u.privacy) THEN StateFields(p1, u) ELSE p1
    IN ErrorField(MetadataField(p2, u), u)

SpanProperties_defaultPrivacy(u, latency) ==
    LET p0 == Put(Put(Put(Put(Put(Put(NoFields,
                  "$ai_trace_id", u.traceId),
                  "$ai_span_id", u.id),
                  "$ai_span_name", u.name),
                  "$ai_parent_id", OrElse(u.parentId, u.traceId)),
                  "$ai_latency", latency),
                  "$ai_is_error", u.isError)
        p1 == SpreadProps(p0, u.properties)
        p2 == IF ~Truthy(options.defaultPrivacyMode) THEN StateFields(p1, u) ELSE p1
    IN ErrorField(MetadataField(p2, u), u)

\* the properties object of Span.end
SpanProperties(u, latency) ==
    LET p0 == Put(Put(Put(Put(Put(Put(NoFields,
                  "$ai_trace_id", u.traceId),
                  "$ai_span_id", u.id),
                  "$ai_span_name", u.name),
                  "$ai_parent_id", OrElse(u.parentId, u.traceId)),
                  "$ai_latency", latency),
                  "$ai_is_error", u.isError)
        p1 == SpreadProps(p0, u.properties)
    IN ErrorField(MetadataField(StateFields(p1, u), u), u)

\* a wrapping under the role of the caller
WrapOutput_userRole(output) ==
    Str("[{\"role\":\"user\",\"content\":" \o JSONstringify(output).s \o "}]")

\* JSON.stringify([{ role: "assistant", content: output }])
WrapOutput(output) ==
    Str("[{\"role\":\"assistant\",\"content\":" \o JSONstringify(output).s \o "}]")

\* the properties object of Generation.end
GenerationProperties(u) ==
    LET p0 == Put(Put(Put(Put(Put(NoFields,
                  "$ai_trace_id", u.traceId),
                  "$ai_model", u.model),
                  "$ai_provider", u.provider),
                  "$ai_input", JSONstringify(u.input)),
                  "$ai_latency", u.latency)
        p1 == SpreadProps(Put(p0, "$ai_is_error", u.isError), u.properties)
        p2 == PutIf(Truthy(u.output), p1, "$ai_output_choices",
                    IF u.output.t = "array" THEN JSONstringify(u.output)
                    ELSE WrapOutput(u.output))
        p3 == PutIf(u.inputTokens.t # "undefined", p2, "$ai_input_tokens", u.inputTokens)
        p4 == PutIf(u.outputTokens.t # "undefined", p3, "$ai_output_tokens", u.outputTokens)
        p5 == PutIf(u.httpStatus.t # "undefined", p4, "$ai_http_status", u.httpStatus)
        p6 == PutIf(Truthy(u.baseUrl), p5, "$ai_base_url", u.baseUrl)
    IN ErrorField(MetadataField(p6, u), u)

\* the properties object of Embedding.end
EmbeddingProperties(u) ==
    LET p0 == Put(Put(Put(Put(Put(NoFields,
                  "$ai_trace_id", u.traceId),
                  "$ai_model", u.model),
                  "$ai_provider", u.provider),
                  "$ai_input", IF TypeOf(u.input) = "string" THEN u.input
                               ELSE JSONstringify(u.input)),
                  "$ai_latency", u.latency)
        p1 == SpreadProps(Put(p0, "$ai_is_error", u.isError), u.properties)
        p2 == PutIf(u.inputTokens.t # "undefined", p1, "$ai_input_tokens", u.inputTokens)
        p3 == PutIf(u.httpStatus.t # "undefined", p2, "$ai_http_status", u.httpStatus)
        p4 == PutIf(Truthy(u.baseUrl), p3, "$ai_base_url", u.baseUrl)
    IN ErrorField(MetadataField(p4, u), u)

\* the argument of client.capture
Capture(distinctId, event, properties) ==
    [distinctId |-> distinctId, event |-> event, properties |-> properties]

\* --------------------------------------------------------- PostHogLLM

\* an init that starts again from the built-in defaults
MergeOptions_fromDefaults(cur, o) ==
    [k \in DOMAIN cur |->
        IF o[k] # None THEN o[k][1]
        ELSE IF k = "defaultPrivacyMode" THEN Bool(FALSE) ELSE Undefined]

\* { ...this.options, ...o }
MergeOptions(cur, o) ==
    [k \in DOMAIN cur |-> IF o[k] # None THEN o[k][1] ELSE cur[k]]

\* process.env.NEXT_PUBLIC_POSTHOG_KEY || "", whatever the environment holds
DefaultApiKey == Str("env.NEXT_PUBLIC_POSTHOG_KEY||''")

\* process.env.NEXT_PUBLIC_POSTHOG_HOST || "https://us.i.posthog.com"
DefaultHost == Str("env.NEXT_PUBLIC_POSTHOG_HOST||https://us.i.posthog.com")

\* no client, no arguments
NoClientArgs == [apiKey |-> Undefined, host |-> Undefined]

\* options?.k || fallback, for the options of this call of init
OptionOr(o, k, fallback) ==
    IF o[k] # None /\ Truthy(o[k][1]) THEN o[k][1] ELSE fallback

\* the arguments of new posthog.PostHog in init(o): read from o, never from
\* PostHogLLM.options
ClientArgsAfterInit(o) ==
    IF serverSide
    THEN [apiKey |-> OptionOr(o, "apiKey", DefaultApiKey),
          host |-> OptionOr(o, "host", DefaultHost)]
    ELSE clientArgs

\* the value of PostHogLLM.client after init(): a new handle on the server
\* side only
ClientAfterInit == IF serverSide THEN client + 1 ELSE client

ClientAfterGetClient_noLazyInit == client

\* the value of PostHogLLM.client after getClient(): init() runs when there
\* is no client yet and the process is server side (init() without options
\* leaves PostHogLLM.options as it is)
ClientAfterGetClient ==
    IF client = 0 /\ serverSide THEN ClientAfterInit ELSE client

\* the arguments of PostHogLLM.client after getClient(): those of init()
\* when it runs
ClientArgsAfterGetClient ==
    IF client = 0 /\ serverSide
    THEN ClientArgsAfterInit(NoPostHogLLMOptions)
    ELSE clientArgs

TracePrivacy_or(o) ==
    OrElse(OrElse(o.privacy, options.defaultPrivacyMode), Bool(FALSE))

\* the privacy option PostHogLLM.trace passes to new Trace
TracePrivacy(o) ==
    Coalesce(Coalesce(o.privacy, options.defaultPrivacyMode), Bool(FALSE))

\* ---------------------------------------------------------------- actions

Init ==
    /\ serverSide \in BOOLEAN
    /\ options = [apiKey |-> Undefined, host |-> Undefined,
                  defaultPrivacyMode |-> Bool(FALSE),
                  defaultDistinctId |-> Undefined]
    /\ client = 0
    /\ clientArgs = NoClientArgs
    /\ units = << >>
    /\ sink = << >>
    /\ now = 0
    /\ uuids = 0
    /\ raised = ""
    /\ hist = << >>
    /\ ends = << >>

\* the passing of time
Tick ==
    /\ now' = now + 1
    /\ UNCHANGED <<serverSide, options, client, clientArgs, units, sink, uuids, raised, hist, ends>>

\* PostHogLLM.init(o)
PostHogLLM_init(o) ==
    /\ options' = MergeOptions(options, o)
    /\ client' = ClientAfterInit
    /\ clientArgs' = ClientArgsAfterInit(o)
    /\ raised' = ""
    /\ UNCHANGED <<serverSide, units, sink, now, uuids, hist, ends>>

\* PostHogLLM.getClient()
PostHogLLM_getClient ==
    /\ client' = ClientAfterGetClient
    /\ clientArgs' = ClientArgsAfterGetClient
    /\ raised' = ""
    /\ UNCHANGED <<serverSide, options, units, sink, now, uuids, hist, ends>>

RECURSIVE Chain(_)
\* history: the properties, as they are now, of unit i and of its ancestors,
\* the Root Unit's first (empty for i = 0, the caller)
Chain(i) ==
    IF i = 0 THEN << >> ELSE Append(Chain(hist[i].parent), units[i].properties)

\* The outcome r of a constructor call that unit `parent` (0: the caller)
\* makes for the caller's options o: the object joins the units unless the
\* constructor threw; `drawn` tells whether uuidv4() was evaluated.  The
\* history keeps the call, PostHogLLM.options and the ancestors' properties
\* as they are at this moment, and the object as constructed.
Construct(r, parent, o, drawn) ==
    /\ uuids' = IF drawn THEN uuids + 1 ELSE uuids
    /\ raised' = r.thrown
    /\ IF r.thrown # ""
       THEN UNCHANGED <<units, hist>>
       ELSE /\ units' = Append(units, r.unit)
            /\ hist' = Append(hist,
                   [parent |-> parent,
                    call |-> o,
                    config |-> options,
                    chain |-> Chain(parent),
                    unit0 |-> r.unit])
    /\ UNCHANGED <<serverSide, options, client, clientArgs, sink, now, ends>>

\* PostHogLLM.trace(o)
PostHogLLM_trace(o) ==
    Construct(TraceCtor([o EXCEPT !.privacy = TracePrivacy(o)], Uuid(uuids + 1), now),
              0, o, ~Truthy(o.id))

\* a Trace.span that refuses once the Root Unit has ended
Trace_span_refusesAfterEnd(i, o) ==
    /\ units[i].kind = "trace"
    /\ IF \E e \in 1..Len(ends) : ends[e].unit = i
       THEN /\ raised' = "closed"
            /\ UNCHANGED <<serverSide, options, client, clientArgs, units, sink, now, uuids, hist, ends>>
       ELSE Construct(SpanCtor(units[i].id, Undefined,
                          [o EXCEPT !.distinctId = units[i].distinctId,
                                    !.properties = Some(MergeMaps(units[i].properties,
                                                                  o.properties))],
                          Uuid(uuids + 1), now),
                      i, o, ~Truthy(o.id))

Trace_span_keepsOptionsDistinctId(i, o) ==
    /\ units[i].kind = "trace"
    /\ Construct(SpanCtor(units[i].id, Undefined,
                     [o EXCEPT !.distinctId = OrElse(o.distinctId, units[i].distinctId),
                               !.properties = Some(MergeMaps(units[i].properties,
                                                             o.properties))],
                     Uuid(uuids + 1), now),
                 i, o, ~Truthy(o.id))

\* Trace.span(o) on unit i
Trace_span(i, o) ==
    /\ units[i].kind = "trace"
    /\ Construct(SpanCtor(units[i].id, Undefined,
                     [o EXCEPT !.distinctId = units[i].distinctId,
                               !.properties = Some(MergeMaps(units[i].properties,
                                                             o.properties))],
                     Uuid(uuids + 1), now),
                 i, o, ~Truthy(o.id))

\* Trace.generation(o) on unit i
\* a generation method that Sub-Units have as well
Trace_generation_onSpans(i, o) ==
    /\ units[i].kind \in {"trace", "span"}
    /\ Construct(GenerationCtor(units[i].traceId,
                     [o EXCEPT !.distinctId = units[i].distinctId,
                               !.properties = Some(MergeMaps(units[i].properties,
                                                             o.properties))],
                     now),
                 i, o, FALSE)

Trace_generation(i, o) ==
    /\ units[i].kind = "trace"
    /\ Construct(GenerationCtor(units[i].id,
                     [o EXCEPT !.distinctId = units[i].distinctId,
                               !.properties = Some(MergeMaps(units[i].properties,
                                                             o.properties))],
                     now),
                 i, o, FALSE)

\* Trace.embedding(o) on unit i
\* a Trace.embedding that leaves the distinct id to the caller's options
Trace_embedding_noDistinctId(i, o) ==
    /\ units[i].kind = "trace"
    /\ Construct(EmbeddingCtor(units[i].id,
                     [o EXCEPT !.distinctId = Undefined,
                               !.properties = Some(MergeMaps(units[i].properties,
                                                             o.properties))],
                     now),
                 i, o, FALSE)

Trace_embedding(i, o) ==
    /\ units[i].kind = "trace"
    /\ Construct(EmbeddingCtor(units[i].id,
                     [o EXCEPT !.distinctId = units[i].distinctId,
                               !.properties = Some(MergeMaps(units[i].properties,
                                                             o.properties))],
                     now),
                 i, o, FALSE)

Span_span_ownOnly(i, o) ==
    /\ units[i].kind = "span"
    /\ Construct(SpanCtor(units[i].traceId, units[i].id,
                     [o EXCEPT !.distinctId = units[i].distinctId,
                               !.properties = Some(Spread(o.properties))],
                     Uuid(uuids + 1), now),
                 i, o, ~Truthy(o.id))

Span_span_linksToTrace(i, o) ==
    /\ units[i].kind = "span"
    /\ Construct(SpanCtor(units[i].traceId, Undefined,
                     [o EXCEPT !.distinctId = units[i].distinctId,
                               !.properties = Some(MergeMaps(units[i].properties,
                                                             o.properties))],
                     Uuid(uuids + 1), now),
                 i, o, ~Truthy(o.id))

\* Span.span(o) on unit i
\* a Span.span that hands its own id down as the trace id
Span_span_ownIdAsTrace(i, o) ==
    /\ units[i].kind = "span"
    /\ Construct(SpanCtor(units[i].id, units[i].id,
                     [o EXCEPT !.distinctId = units[i].distinctId,
                               !.properties = Some(MergeMaps(units[i].properties,
                                                             o.properties))],
                     Uuid(uuids + 1), now),
                 i, o, ~Truthy(o.id))

Span_span(i, o) ==
    /\ units[i].kind = "span"
    /\ Construct(SpanCtor(units[i].traceId, units[i].id,
                     [o EXCEPT !.distinctId = units[i].distinctId,
                               !.properties = Some(MergeMaps(units[i].properties,
                                                             o.properties))],
                     Uuid(uuids + 1), now),
                 i, o, ~Truthy(o.id))

\* unit i becomes u; nothing is constructed or sent
\* an assignment whose name is kept in a field shared by the units of a class
Assign_staticName(i, u) ==
    /\ units' = [j \in 1..Len(units) |->
                    IF j = i THEN u
                    ELSE IF units[j].kind = u.kind
                         THEN [units[j] EXCEPT !.name = u.name]
                         ELSE units[j]]
    /\ raised' = ""
    /\ UNCHANGED <<serverSide, options, client, clientArgs, sink, now, uuids, hist, ends>>

Assign(i, u) ==
    /\ units' = [units EXCEPT ![i] = u]
    /\ raised' = ""
    /\ UNCHANGED <<serverSide, options, client, clientArgs, sink, now, uuids, hist, ends>>

Trace_update_sharedMap(i, o) ==
    /\ units[i].kind = "trace"
    /\ units' = [j \in DOMAIN units |->
                     IF j = i THEN TraceUpdate(units[i], o)
                     ELSE IF hist[j].parent = i /\ o.properties # None
                          THEN [units[j] EXCEPT
                                   !.properties = Some(MergeMaps(@, o.properties))]
                          ELSE units[j]]
    /\ raised' = ""
    /\ UNCHANGED <<serverSide, options, client, clientArgs, sink, now, uuids, hist, ends>>

\* Trace.update(o) on unit i
Trace_update(i, o) ==
    /\ units[i].kind = "trace"
    /\ Assign(i, TraceUpdate(units[i], o))

\* Span.update(o) on unit i
Span_update(i, o) ==
    /\ units[i].kind = "span"
    /\ Assign(i, SpanUpdate(units[i], o))

\* Generation.update(o) on unit i
Generation_update(i, o) ==
    /\ units[i].kind = "generation"
    /\ Assign(i, GenerationUpdate(units[i], o))

\* The tail of end(o) on unit i, which has become u: getClient() is called
\* and, if it returns a client, the event is captured.  The history keeps
\* the call, the unit before and after the overrides, the time, and the
\* place of the event in the sink (0: none).
Emit(i, o, u, event, properties) ==
    /\ units' = [units EXCEPT ![i] = u]
    /\ client' = ClientAfterGetClient
    /\ clientArgs' = ClientArgsAfterGetClient
    /\ sink' = IF ClientAfterGetClient # 0
               THEN Append(sink, Capture(u.distinctId, event, properties))
               ELSE sink
    /\ ends' = Append(ends,
           [unit |-> i, call |-> o, before |-> units[i], snap |-> u, at |-> now,
            sent |-> IF ClientAfterGetClient # 0 THEN Len(sink) + 1 ELSE 0])
    /\ raised' = ""
    /\ UNCHANGED <<serverSide, options, now, uuids, hist>>

\* Trace.end(o) on unit i
Trace_end(i, o) ==
    /\ units[i].kind = "trace"
    /\ LET u == EndOverrides(units[i], o)
       IN Emit(i, o, u, "$ai_trace",
               TraceProperties(u, Elapsed(units[i].startTime, now)))

\* Span.end(o) on unit i
Span_end(i, o) ==
    /\ units[i].kind = "span"
    /\ LET u == EndOverrides(units[i], o)
       IN Emit(i, o, u, "$ai_span",
               SpanProperties(u, Elapsed(units[i].startTime, now)))

\* Generation.end(o) on unit i
Generation_end(i, o) ==
    /\ units[i].kind = "generation"
    /\ LET u == GenerationEndOverrides(units[i], o, now)
       IN Emit(i, o, u, "$ai_generation", GenerationProperties(u))

\* Embedding.end(o) on unit i
\* an Embedding.end that sends the event of a generation
Embedding_end_asGeneration(i, o) ==
    /\ units[i].kind = "embedding"
    /\ LET u == EmbeddingEndOverrides(units[i], o, now)
       IN Emit(i, o, u, "$ai_generation", EmbeddingProperties(u))

Embedding_end(i, o) ==
    /\ units[i].kind = "embedding"
    /\ LET u == EmbeddingEndOverrides(units[i], o, now)
       IN Emit(i, o, u, "$ai_embedding", EmbeddingProperties(u))

\* ---------------------------------------------------------------- inputs

Map1(k, v) == Some([EmptyMap EXCEPT ![k] = Some(v)])

\* a TraceOptions that names the trace and its user
SomeTrace == [NoTraceOptions EXCEPT !.name = Str("t"), !.distinctId = Str("user-1")]

SomeSpan == [NoSpanOptions EXCEPT !.name = Str("s")]

SomeGeneration ==
    [NoGenerationOptions EXCEPT !.name = Str("g"), !.model = Str("gpt-4"),
                                !.provider = Str("openai"), !.input = Str("hi")]

SomeEmbedding ==
    [NoEmbeddingOptions EXCEPT !.name = Str("e"), !.model = Str("emb-3"),
                               !.provider = Str("openai"), !.input = Str("hi")]

Unit == 1..Len(units)

\* the bounds a specification puts on the calls it explores
CanConstruct(n) == Len(units) < n /\ uuids < n

CanEnd(n) == Len(ends) < n

\* ------------------------------------------- specification: properties
\* One Root Unit and its descendants; the calls vary the properties maps.

PropsUnits == 3

PropsEvents == 1

RootProps == {None, Map1("a", "1")}

UpdateProps == {Map1("a", "9")}

OwnProps == {None, Map1("b", "2"), Map1("a", "9")}

PropsTrace ==
    /\ units = << >>
    /\ \E p \in RootProps : PostHogLLM_trace([SomeTrace EXCEPT !.properties = p])

PropsTraceUpdate ==
    \E i \in Unit, p \in UpdateProps :
        Trace_update(i, [NoTraceOptions EXCEPT !.properties = p])

PropsSpanUpdate ==
    \E i \in Unit, p \in UpdateProps :
        Span_update(i, [NoSpanOptions EXCEPT !.properties = p])

PropsGenerationUpdate ==
    \E i \in Unit, p \in UpdateProps :
        Generation_update(i, [NoGenerationOptions EXCEPT !.properties = p])

PropsTraceSpan ==
    /\ CanConstruct(PropsUnits)
    /\ \E i \in Unit, p \in OwnProps :
          Trace_span(i, [SomeSpan EXCEPT !.properties = p])

PropsTraceGeneration ==
    /\ CanConstruct(PropsUnits)
    /\ \E i \in Unit :
          Trace_generation(i, [SomeGeneration EXCEPT !.properties = Map1("a", "9")])

PropsTraceEmbedding ==
    /\ CanConstruct(PropsUnits)
    /\ \E i \in Unit :
          Trace_embedding(i, [SomeEmbedding EXCEPT !.properties = Map1("b", "2")])

PropsSpanSpan ==
    /\ CanConstruct(PropsUnits)
    /\ \E i \in Unit, p \in OwnProps :
          Span_span(i, [SomeSpan EXCEPT !.properties = p])

PropsTraceEnd == CanEnd(PropsEvents) /\ \E i \in Unit : Trace_end(i, NoEndOptions)

PropsSpanEnd == CanEnd(PropsEvents) /\ \E i \in Unit : Span_end(i, NoEndOptions)

PropsGenerationEnd ==
    CanEnd(PropsEvents) /\ \E i \in Unit : Generation_end(i, NoGenerationEndOptions)

PropsEmbeddingEnd ==
    CanEnd(PropsEvents) /\ \E i \in Unit : Embedding_end(i, NoEmbeddingEndOptions)

NextProps ==
    \/ PropsTrace
    \/ PropsTraceUpdate
    \/ PropsSpanUpdate
    \/ PropsGenerationUpdate
    \/ PropsTraceSpan
    \/ PropsTraceGeneration
    \/ PropsTraceEmbedding
    \/ PropsSpanSpan
    \/ PropsTraceEnd
    \/ PropsSpanEnd
    \/ PropsGenerationEnd
    \/ PropsEmbeddingEnd

SpecProps == Init /\ [][NextProps]_vars

\* ------------------------------------------------- claims on properties

\* history: the unit at the top of unit i's ancestor chain
RECURSIVE RootOf(_)
RootOf(i) == IF hist[i].parent = 0 THEN i ELSE RootOf(hist[i].parent)

Children == {c \in Unit : hist[c].parent # 0}

\* history: the properties of the parent of unit c when c was created
ParentProps(c) == hist[c].chain[Len(hist[c].chain)]

\* the events unit c has sent to the sink
EventsOf(c) == {ends[e].sent : e \in {x \in 1..Len(ends) : ends[x].unit = c}} \ {0}

\* the last map of the sequence ms that binds key k decides its value
LastWins(ms) ==
    [k \in PropKeys |->
        LET at == {i \in 1..Len(ms) : Spread(ms[i])[k] # None}
        IN IF at = {} THEN None
           ELSE Spread(ms[CHOOSE i \in at : \A j \in at : j <= i])[k]]

\* C1: a child keeps the properties map it was created with, whatever the
\* Root Unit is updated to afterwards, and every event the child sends
\* carries each of those properties with the value it had at creation.
C1_Snapshot ==
    \A c \in Children :
        /\ units[c].properties = hist[c].unit0.properties
        /\ \A e \in EventsOf(c) : \A k \in Keys(hist[c].unit0.properties) :
               sink[e].properties[k] = Some(Str(Spread(hist[c].unit0.properties)[k][1]))

\* C1 witness: a child created under a:"1" has sent its event after the Root
\* Unit was updated to a:"9"
C1_Witness ==
    \E c \in Children :
        /\ hist[c].parent = RootOf(c)
        /\ Spread(hist[c].unit0.properties)["a"] = Some("1")
        /\ Spread(hist[c].unit0.properties)["b"] = Some("2")
        /\ Spread(units[RootOf(c)].properties)["a"] = Some("9")
        /\ \E e \in EventsOf(c) : sink[e].properties["a"] = Some(Str("1"))

\* C2 as stated: the properties of a unit at creation are the merge, from
\* the Root Unit down, of every ancestor's properties as they are at that
\* moment, followed by the unit's own.
C2_AllAncestors ==
    \A c \in Children :
        Spread(hist[c].unit0.properties) = LastWins(Append(hist[c].chain, hist[c].call.properties))

\* C2 amended: the properties of a unit at creation are the merge of its
\* direct parent's properties map as it is at that moment, followed by the
\* unit's own (own values win), at every depth.
C2_ParentOnly ==
    \A c \in Children :
        Spread(hist[c].unit0.properties) = LastWins(<<ParentProps(c), hist[c].call.properties>>)

\* C2 witness: a Sub-Unit of a Sub-Unit created after the Root Unit was
\* given a key that the parent Sub-Unit does not hold
C2_Witness ==
    \E c \in Children :
        /\ Len(hist[c].chain) = 2
        /\ Keys(hist[c].chain[1]) \ Keys(ParentProps(c)) # {}

\* C3: at every child creation the child's map holds exactly the keys of
\* the parent's map and of its own map; a key of the own map has the own
\* value, any other key the parent's value; an absent map adds nothing.
C3_OwnWins ==
    \A c \in Children :
        /\ Keys(hist[c].unit0.properties) = Keys(ParentProps(c)) \cup Keys(hist[c].call.properties)
        /\ \A k \in Keys(hist[c].call.properties) :
               Spread(hist[c].unit0.properties)[k] = Spread(hist[c].call.properties)[k]
        /\ \A k \in Keys(ParentProps(c)) \ Keys(hist[c].call.properties) :
               Spread(hist[c].unit0.properties)[k] = Spread(ParentProps(c))[k]

\* C3 witness: a Root Unit holding a:"1" has created a child with own map
\* a:"9", which holds a:"9", and that child has created a Sub-Unit without
\* an own map, which holds a:"9" too
C3_Witness ==
    \E c, d \in Children :
        /\ units[hist[c].parent].kind = "trace"
        /\ Spread(ParentProps(c))["a"] = Some("1")
        /\ Spread(hist[c].call.properties)["a"] = Some("9")
        /\ Spread(units[c].properties)["a"] = Some("9")
        /\ hist[d].parent = c
        /\ hist[d].call.properties = None
        /\ Spread(units[d].properties)["a"] = Some("9")

\* -------------------------------------------- specification: identities
\* One Root Unit and its descendants; the calls vary the ids and the subject
\* identifiers (userEmail, distinctId) they pass.

IdsUnits == 3

IdsEvents == 1

TraceIds == {Undefined, Str("x")}

SpanIds == {Undefined, Str("x")}

Emails == {Undefined, Str("e@x")}

DistinctIds == {Undefined, Str("user-1")}

\* an update that names every identity field its options type declares
IdsTraceUpdateOptions ==
    [NoTraceOptions EXCEPT !.id = Str("z"), !.userEmail = Str("other"),
                           !.distinctId = Str("other")]

IdsSpanUpdateOptions ==
    [NoSpanOptions EXCEPT !.id = Str("z"), !.distinctId = Str("other")]

IdsGenerationUpdateOptions ==
    [NoGenerationOptions EXCEPT !.distinctId = Str("other")]

IdsTrace ==
    /\ units = << >>
    /\ CanConstruct(IdsUnits)
    /\ \E id \in TraceIds, e \in Emails, d \in DistinctIds :
          PostHogLLM_trace([SomeTrace EXCEPT !.id = id, !.userEmail = e,
                                            !.distinctId = d])

IdsTraceSpan ==
    /\ CanConstruct(IdsUnits)
    /\ \E i \in Unit, id \in SpanIds :
          Trace_span(i, [SomeSpan EXCEPT !.id = id, !.distinctId = Str("other")])

IdsSpanSpan ==
    /\ CanConstruct(IdsUnits)
    /\ \E i \in Unit, id \in SpanIds :
          Span_span(i, [SomeSpan EXCEPT !.id = id, !.distinctId = Str("other")])

IdsTraceGeneration ==
    /\ CanConstruct(IdsUnits)
    /\ \E i \in Unit :
          Trace_generation(i, [SomeGeneration EXCEPT !.distinctId = Str("other")])

IdsTraceEmbedding ==
    /\ CanConstruct(IdsUnits)
    /\ \E i \in Unit :
          Trace_embedding(i, [SomeEmbedding EXCEPT !.distinctId = Str("other")])

IdsTraceUpdate == \E i \in Unit : Trace_update(i, IdsTraceUpdateOptions)

IdsSpanUpdate == \E i \in Unit : Span_update(i, IdsSpanUpdateOptions)

IdsGenerationUpdate ==
    \E i \in Unit : Generation_update(i, IdsGenerationUpdateOptions)

IdsTraceEnd == CanEnd(IdsEvents) /\ \E i \in Unit : Trace_end(i, NoEndOptions)

IdsSpanEnd == CanEnd(IdsEvents) /\ \E i \in Unit : Span_end(i, NoEndOptions)

IdsGenerationEnd ==
    CanEnd(IdsEvents) /\ \E i \in Unit : Generation_end(i, NoGenerationEndOptions)

IdsEmbeddingEnd ==
    CanEnd(IdsEvents) /\ \E i \in Unit : Embedding_end(i, NoEmbeddingEndOptions)

NextIds ==
    \/ IdsTrace
    \/ IdsTraceSpan
    \/ IdsSpanSpan
    \/ IdsTraceGeneration
    \/ IdsTraceEmbedding
    \/ IdsTraceUpdate
    \/ IdsSpanUpdate
    \/ IdsGenerationUpdate
    \/ IdsTraceEnd
    \/ IdsSpanEnd
    \/ IdsGenerationEnd
    \/ IdsEmbeddingEnd

SpecIds == Init /\ [][NextIds]_vars

\* ------------------------------------------------- claims on identities

\* the subject identifier a Root Unit received at construction: the
\* userEmail of the call, or else its distinctId
Subject(r) ==
    IF Truthy(hist[r].call.userEmail) THEN hist[r].call.userEmail
    ELSE hist[r].call.distinctId

\* C4: every unit of a tree, the Root Unit included, holds the subject
\* identifier the Root Unit received at construction, whatever distinctId
\* the child's options carried and whatever updates were made, and every
\* event of the tree is captured under that identifier.
C4_SubjectFixed ==
    /\ \A c \in Unit :
          /\ Truthy(units[c].distinctId)
          /\ units[c].distinctId = Subject(RootOf(c))
    /\ \A e \in 1..Len(ends) :
          ends[e].sent # 0 =>
              sink[ends[e].sent].distinctId = Subject(RootOf(ends[e].unit))

\* C4 witness: a child of a child of a Root Unit built from a userEmail,
\* both created with another distinctId in their options, has sent its
\* event under the Root Unit's userEmail
C4_Witness ==
    \E c \in Children :
        /\ hist[c].call.distinctId = Str("other")
        /\ hist[hist[c].parent].parent # 0
        /\ hist[hist[c].parent].call.distinctId = Str("other")
        /\ hist[RootOf(c)].call.userEmail = Str("e@x")
        /\ \E e \in EventsOf(c) : sink[e].distinctId = Str("e@x")

Spans == {c \in Unit : units[c].kind = "span"}

\* C6 as stated: the parent-id field of a Sub-Unit's event is the Root
\* Unit's id when the Root Unit created it, and is the parent Sub-Unit's own
\* id and not the Root Unit's id when a Sub-Unit created it.
C6_ParentNotRoot ==
    \A c \in Spans : \A e \in EventsOf(c) :
        LET p == hist[c].parent
            field == sink[e].properties["$ai_parent_id"]
        IN IF units[p].kind = "trace"
           THEN field = Some(units[p].id)
           ELSE field = Some(units[p].id) /\ field # Some(units[RootOf(c)].id)

\* C6 amended: the parent-id field of a Sub-Unit's event is the id of the
\* unit that created it, Root Unit or Sub-Unit, at every depth and for
\* generated and supplied ids; it differs from the Root Unit's id exactly
\* when the parent Sub-Unit's id does.
C6_ParentLinkage ==
    \A c \in Spans : \A e \in EventsOf(c) :
        LET p == hist[c].parent
            field == sink[e].properties["$ai_parent_id"]
        IN /\ field = Some(units[p].id)
           /\ (field = Some(units[RootOf(c)].id)) <=> (units[p].id = units[RootOf(c)].id)

\* C6 witness: a Sub-Unit of a Sub-Unit of a Root Unit has sent its event,
\* whose parent id is a generated id and is not the trace id
C6_Witness ==
    \E c \in Spans : \E e \in EventsOf(c) :
        /\ units[hist[c].parent].kind = "span"
        /\ hist[hist[c].parent].call.id = Undefined
        /\ sink[e].properties["$ai_parent_id"] = Some(units[hist[c].parent].id)
        /\ sink[e].properties["$ai_parent_id"] # sink[e].properties["$ai_trace_id"]

\* ----------------------------------------------- specification: emission
\* The process-wide calls (init, getClient) in any order with the calls on
\* one tree; end() is called with and without an error.

EmitUnits == 2

EmitEvents == 2

EmitHandles == 1

EmitInitOptions ==
    {NoPostHogLLMOptions,
     [NoPostHogLLMOptions EXCEPT !.apiKey = Some(Str("phc_key"))]}

EmitEndOptions ==
    {NoEndOptions,
     [NoEndOptions EXCEPT !.isError = Bool(TRUE), !.error = Str("boom")]}

EmitGenerationEndOptions ==
    {[NoGenerationEndOptions EXCEPT !.isError = Bool(TRUE), !.error = Str("boom")]}

EmitEmbeddingEndOptions ==
    {[NoEmbeddingEndOptions EXCEPT !.isError = Bool(TRUE), !.error = Str("boom")]}

EmitInit ==
    /\ client < EmitHandles
    /\ \E o \in EmitInitOptions : PostHogLLM_init(o)

EmitGetClient == PostHogLLM_getClient

EmitTrace == units = << >> /\ PostHogLLM_trace(SomeTrace)

EmitTraceSpan == CanConstruct(EmitUnits) /\ \E i \in Unit : Trace_span(i, SomeSpan)

EmitTraceGeneration ==
    CanConstruct(EmitUnits) /\ \E i \in Unit : Trace_generation(i, SomeGeneration)

EmitTraceEmbedding ==
    CanConstruct(EmitUnits) /\ \E i \in Unit : Trace_embedding(i, SomeEmbedding)

EmitTraceUpdate ==
    \E i \in Unit : Trace_update(i, [NoTraceOptions EXCEPT !.isError = Bool(TRUE)])

EmitTraceEnd ==
    CanEnd(EmitEvents) /\ \E i \in Unit, o \in EmitEndOptions : Trace_end(i, o)

EmitSpanEnd ==
    CanEnd(EmitEvents) /\ \E i \in Unit, o \in EmitEndOptions : Span_end(i, o)

EmitGenerationEnd ==
    CanEnd(EmitEvents)
    /\ \E i \in Unit, o \in EmitGenerationEndOptions : Generation_end(i, o)

EmitEmbeddingEnd ==
    CanEnd(EmitEvents)
    /\ \E i \in Unit, o \in EmitEmbeddingEndOptions : Embedding_end(i, o)

NextEmit ==
    \/ EmitInit
    \/ EmitGetClient
    \/ EmitTrace
    \/ EmitTraceSpan
    \/ EmitTraceGeneration
    \/ EmitTraceEmbedding
    \/ EmitTraceUpdate
    \/ EmitTraceEnd
    \/ EmitSpanEnd
    \/ EmitGenerationEnd
    \/ EmitEmbeddingEnd

SpecEmit == Init /\ [][NextEmit]_vars

\* --------------------------------------------------- claims on emission

\* history: the end() calls made on unit c
EndsOf(c) == {e \in 1..Len(ends) : ends[e].unit = c}

\* C5 as stated: the number of events the sink has received for a unit is
\* the number of end() calls made on it.
C5_EventPerEnd ==
    \A c \in Unit : Cardinality(EventsOf(c)) = Cardinality(EndsOf(c))

\* C5 amended: in a server-side process (no window global) the events in
\* the sink are, in order, one per end() call made so far, whatever its
\* error flag and error value and whether init was called before; nothing
\* else adds an event; in a process with a window global no event is ever
\* captured.
C5_EventPerEndOnServer ==
    IF serverSide
    THEN /\ Len(sink) = Len(ends)
         /\ \A e \in 1..Len(ends) : ends[e].sent = e
         /\ \A c \in Unit : Cardinality(EventsOf(c)) = Cardinality(EndsOf(c))
    ELSE sink = << >> /\ client = 0

\* C5 witness: on the server side one unit has been ended twice, once with
\* the error flag set and an error value, and has two events in the sink,
\* while its root was updated and never ended and has none
C5_Witness ==
    /\ serverSide
    /\ \E c, d \in Unit :
          /\ Cardinality(EventsOf(c)) = 2
          /\ \E e \in EndsOf(c) : Truthy(ends[e].call.isError) /\ Truthy(ends[e].call.error)
          /\ EndsOf(d) = {}
          /\ Truthy(units[d].isError)
          /\ hist[c].parent = d

\* ------------------------------------------------ specification: privacy
\* init() sets or clears the default privacy mode, as long as no client
\* exists; one Root Unit is created
\* with or without a privacy flag, an input state and a custom property
\* named like the input-state field; its children carry payloads.

PrivacyUnits == 2

PrivacyEvents == 1

PrivacyModes == {Some(Bool(TRUE)), Some(Undefined)}

PrivacyFlags == {Undefined, Bool(TRUE), Bool(FALSE)}

InputStates == {Undefined, Obj("{\"q\":\"hi\"}")}

PrivacyProps == {None, Map1("$ai_input_state", "mine")}

PrivacyInit ==
    /\ client = 0
    /\ \E m \in PrivacyModes :
          PostHogLLM_init([NoPostHogLLMOptions EXCEPT !.defaultPrivacyMode = m])

PrivacyTrace ==
    /\ units = << >>
    /\ \E f \in PrivacyFlags, s \in InputStates, m \in PrivacyProps :
          PostHogLLM_trace([SomeTrace EXCEPT !.privacy = f, !.inputState = s,
                                             !.properties = m])

PrivacyTraceUpdate ==
    \E i \in Unit, f \in {Bool(TRUE), Bool(FALSE)} :
        Trace_update(i, [NoTraceOptions EXCEPT !.privacy = f])

PrivacyTraceSpan ==
    /\ CanConstruct(PrivacyUnits)
    /\ \E i \in Unit :
          Trace_span(i, [SomeSpan EXCEPT !.inputState = Obj("{\"q\":\"hi\"}")])

PrivacyTraceGeneration ==
    CanConstruct(PrivacyUnits) /\ \E i \in Unit : Trace_generation(i, SomeGeneration)

PrivacyTraceEmbedding ==
    CanConstruct(PrivacyUnits) /\ \E i \in Unit : Trace_embedding(i, SomeEmbedding)

PrivacyTraceEnd ==
    /\ CanEnd(PrivacyEvents)
    /\ \E i \in Unit :
          Trace_end(i, [NoEndOptions EXCEPT !.outputState = Obj("{\"r\":\"ok\"}")])

PrivacySpanEnd ==
    /\ CanEnd(PrivacyEvents)
    /\ \E i \in Unit :
          Span_end(i, [NoEndOptions EXCEPT !.outputState = Obj("{\"r\":\"ok\"}")])

PrivacyGenerationEnd ==
    /\ CanEnd(PrivacyEvents)
    /\ \E i \in Unit :
          Generation_end(i, [NoGenerationEndOptions EXCEPT !.output = Str("ok")])

PrivacyEmbeddingEnd ==
    CanEnd(PrivacyEvents) /\ \E i \in Unit : Embedding_end(i, NoEmbeddingEndOptions)

NextPrivacy ==
    \/ PrivacyInit
    \/ PrivacyTrace
    \/ PrivacyTraceUpdate
    \/ PrivacyTraceSpan
    \/ PrivacyTraceGeneration
    \/ PrivacyTraceEmbedding
    \/ PrivacyTraceEnd
    \/ PrivacySpanEnd
    \/ PrivacyGenerationEnd
    \/ PrivacyEmbeddingEnd

SpecPrivacy == Init /\ [][NextPrivacy]_vars

\* ---------------------------------------------------- claims on privacy

\* history: the end() calls on units of the given kind that sent an event
SentEnds(kind) ==
    {e \in 1..Len(ends) : ends[e].sent # 0 /\ ends[e].snap.kind = kind}

\* the event the end() call e sent
EventOf(e) == sink[ends[e].sent].properties

\* the value the custom properties of unit record u give the key k, if any
CustomField(u, k) ==
    IF Spread(u.properties)[k] # None THEN Some(Str(Spread(u.properties)[k][1]))
    ELSE None

\* C7 as stated: the event of a Root Unit closed with the privacy flag true
\* has no input-state and no output-state field, whatever its states and
\* custom properties; with the flag false a present state is in the event
\* in serialized form.
C7_NoStateFields ==
    \A e \in SentEnds("trace") :
        LET u == ends[e].snap
        IN IF Truthy(u.privacy)
           THEN /\ EventOf(e)["$ai_input_state"] = None
                /\ EventOf(e)["$ai_output_state"] = None
           ELSE /\ Truthy(u.inputState) =>
                     EventOf(e)["$ai_input_state"] = Some(JSONstringify(u.inputState))
                /\ Truthy(u.outputState) =>
                     EventOf(e)["$ai_output_state"] = Some(JSONstringify(u.outputState))

\* C7 amended: the event of a Root Unit closed with the privacy flag true
\* never carries the unit's input or output state: its input-state and
\* output-state fields are absent, unless the unit's own custom properties
\* have a key of that very name, whose value the field then holds; with the
\* flag false a state that is present (truthy) is in the event in
\* serialized form.
C7_StatesSuppressed ==
    \A e \in SentEnds("trace") :
        LET u == ends[e].snap
        IN IF Truthy(u.privacy)
           THEN /\ EventOf(e)["$ai_input_state"] = CustomField(u, "$ai_input_state")
                /\ EventOf(e)["$ai_output_state"] = CustomField(u, "$ai_output_state")
           ELSE /\ Truthy(u.inputState) =>
                     EventOf(e)["$ai_input_state"] = Some(JSONstringify(u.inputState))
                /\ Truthy(u.outputState) =>
                     EventOf(e)["$ai_output_state"] = Some(JSONstringify(u.outputState))

\* C7 witness: a Root Unit holding an input and an output state was closed
\* with the privacy flag true and its event has neither field
C7_Witness ==
    \E e \in SentEnds("trace") :
        /\ Truthy(ends[e].snap.privacy)
        /\ Truthy(ends[e].snap.inputState)
        /\ Truthy(ends[e].snap.outputState)
        /\ EventOf(e)["$ai_input_state"] = None
        /\ EventOf(e)["$ai_output_state"] = None

\* C8: whatever the Root Unit's privacy flag and the default privacy mode
\* are, the event of a Sub-Unit has its input state and its output state
\* when set, the event of a Model-Call Unit its input and, when set, its
\* output, and the event of an Embedding Unit its input.
C8_ChildrenNotSuppressed ==
    /\ \A e \in SentEnds("span") :
          LET u == ends[e].snap
          IN /\ Truthy(u.inputState) =>
                   EventOf(e)["$ai_input_state"] = Some(JSONstringify(u.inputState))
             /\ Truthy(u.outputState) =>
                   EventOf(e)["$ai_output_state"] = Some(JSONstringify(u.outputState))
    /\ \A e \in SentEnds("generation") :
          LET u == ends[e].snap
          IN /\ EventOf(e)["$ai_input"] = Some(JSONstringify(u.input))
             /\ Truthy(u.output) => EventOf(e)["$ai_output_choices"] # None
    /\ \A e \in SentEnds("embedding") :
          EventOf(e)["$ai_input"] = Some(ends[e].snap.input)

\* C8 witness: under a default privacy mode of true, the event of a Sub-Unit
\* of a Root Unit whose privacy flag is true has the Sub-Unit's input and
\* output states
C8_Witness ==
    \E e \in SentEnds("span") :
        /\ Truthy(options.defaultPrivacyMode)
        /\ Truthy(units[RootOf(ends[e].unit)].privacy)
        /\ EventOf(e)["$ai_input_state"] = Some(Str("{\"q\":\"hi\"}"))
        /\ EventOf(e)["$ai_output_state"] = Some(Str("{\"r\":\"ok\"}"))

\* history: the Root Units
Roots == {c \in Unit : units[c].kind = "trace"}

\* C9: a Root Unit made by PostHogLLM.trace has, as constructed, the privacy
\* flag the caller gave, true or false; given none, the default privacy mode
\* in effect at that call; false when there is no default either.
C9_PrivacyDefault ==
    \A c \in Roots :
        hist[c].unit0.privacy =
            IF hist[c].call.privacy.t # "undefined" THEN hist[c].call.privacy
            ELSE IF hist[c].config.defaultPrivacyMode.t # "undefined"
                 THEN hist[c].config.defaultPrivacyMode
                 ELSE Bool(FALSE)

\* C9 witness: a Root Unit created without a privacy flag while the default
\* privacy mode was true has the flag true
C9_Witness ==
    \E c \in Roots :
        /\ hist[c].call.privacy = Undefined
        /\ hist[c].config.defaultPrivacyMode = Bool(TRUE)
        /\ hist[c].unit0.privacy = Bool(TRUE)

\* ------------------------------------------------- specification: errors
\* One Root Unit and a child of any kind; the error flag and the error
\* value are given at construction, changed by update() and overridden by
\* end().

ErrorUnits == 2

ErrorEvents == 2

\* TraceOptions etc. with the error flag set and an error value
WithError(o, x) == [o EXCEPT !.isError = Bool(TRUE), !.error = x]

\* the end() calls explored on a Root Unit and on a Sub-Unit
ErrorEndOptions ==
    {[NoEndOptions EXCEPT !.isError = Bool(FALSE), !.error = Str("boom")],
     [NoEndOptions EXCEPT !.isError = Bool(TRUE), !.error = Str("")]}

ErrorGenerationEndOptions ==
    {[NoGenerationEndOptions EXCEPT !.isError = Bool(TRUE), !.error = Str("boom")]}

ErrorEmbeddingEndOptions ==
    {[NoEmbeddingEndOptions EXCEPT !.isError = Bool(FALSE), !.error = Str("boom")]}

ErrorTrace ==
    /\ units = << >>
    /\ \E o \in {SomeTrace, WithError(SomeTrace, Str("boom"))} : PostHogLLM_trace(o)

ErrorTraceSpan ==
    /\ CanConstruct(ErrorUnits)
    /\ \E i \in Unit, o \in {SomeSpan, WithError(SomeSpan, Err("boom"))} :
          Trace_span(i, o)

ErrorTraceGeneration ==
    /\ CanConstruct(ErrorUnits)
    /\ \E i \in Unit : Trace_generation(i, SomeGeneration)

ErrorTraceEmbedding ==
    /\ CanConstruct(ErrorUnits)
    /\ \E i \in Unit : Trace_embedding(i, WithError(SomeEmbedding, Str("boom")))

ErrorTraceUpdate ==
    \E i \in Unit : Trace_update(i, [NoTraceOptions EXCEPT !.isError = Bool(FALSE)])

ErrorSpanUpdate ==
    \E i \in Unit : Span_update(i, [NoSpanOptions EXCEPT !.error = Str("late")])

ErrorGenerationUpdate ==
    \E i \in Unit :
        Generation_update(i, [NoGenerationOptions EXCEPT !.error = Str("late")])

ErrorTraceEnd ==
    CanEnd(ErrorEvents) /\ \E i \in Unit, o \in ErrorEndOptions : Trace_end(i, o)

ErrorSpanEnd ==
    CanEnd(ErrorEvents) /\ \E i \in Unit, o \in ErrorEndOptions : Span_end(i, o)

ErrorGenerationEnd ==
    CanEnd(ErrorEvents)
    /\ \E i \in Unit, o \in ErrorGenerationEndOptions : Generation_end(i, o)

ErrorEmbeddingEnd ==
    CanEnd(ErrorEvents)
    /\ \E i \in Unit, o \in ErrorEmbeddingEndOptions : Embedding_end(i, o)

NextError ==
    \/ ErrorTrace
    \/ ErrorTraceSpan
    \/ ErrorTraceGeneration
    \/ ErrorTraceEmbedding
    \/ ErrorTraceUpdate
    \/ ErrorSpanUpdate
    \/ ErrorGenerationUpdate
    \/ ErrorTraceEnd
    \/ ErrorSpanEnd
    \/ ErrorGenerationEnd
    \/ ErrorEmbeddingEnd

SpecError == Init /\ [][NextError]_vars

\* ----------------------------------------------------- claims on errors

\* history: the end() calls that sent an event
Sent == {e \in 1..Len(ends) : ends[e].sent # 0}

\* C10: for every kind of unit, the event of an end() has an error field
\* exactly when, once the overrides of that end() are applied, the unit's
\* error flag is true and its error value is present (a truthy value); with
\* the flag false there is no error field whatever error value was given at
\* construction, by update() or to end(); an error value that is a string
\* is the field's value as it is.
C10_ErrorField ==
    \A e \in Sent :
        LET u == ends[e].snap
            field == EventOf(e)["$ai_error"]
        IN /\ (field # None) <=> (Truthy(u.isError) /\ Truthy(u.error))
           /\ ~Truthy(u.isError) => field = None
           /\ (field # None /\ u.error.t = "string") => field = Some(u.error)

\* C10 witness: a unit built with the error flag true and an error value
\* was closed by an end() that puts the flag to false and gives an error
\* value, and its event has no error field; and a Model-Call Unit given a
\* string error by update() was closed by an end() that puts the flag to
\* true and gives another string, and its event has that string
C10_Witness ==
    /\ \E e \in Sent :
          /\ Truthy(ends[e].before.isError)
          /\ Truthy(ends[e].before.error)
          /\ ends[e].call.isError = Bool(FALSE)
          /\ Truthy(ends[e].call.error)
          /\ EventOf(e)["$ai_error"] = None
    /\ \E e \in Sent :
          /\ ends[e].snap.kind = "generation"
          /\ ends[e].before.isError = Bool(FALSE)
          /\ ends[e].before.error = Str("late")
          /\ ends[e].call.isError = Bool(TRUE)
          /\ EventOf(e)["$ai_error"] = Some(Str("boom"))

\* ------------------------------------------------ specification: latency
\* Time passes between the calls; end() is called with and without a
\* latency, on every kind of unit.  A latency is in thousandths of a second.

LatencyUnits == 2

LatencyEvents == 1

LatencyClock == 2

Latencies == {Undefined, Num(500), Num(0)}

LatencyTick == now < LatencyClock /\ Tick

LatencyTrace == units = << >> /\ PostHogLLM_trace(SomeTrace)

LatencyTraceSpan ==
    CanConstruct(LatencyUnits) /\ \E i \in Unit : Trace_span(i, SomeSpan)

LatencyTraceGeneration ==
    /\ CanConstruct(LatencyUnits)
    /\ \E i \in Unit, l \in {Undefined, Num(250)} :
          Trace_generation(i, [SomeGeneration EXCEPT !.latency = l])

LatencyTraceEmbedding ==
    /\ CanConstruct(LatencyUnits)
    /\ \E i \in Unit, l \in {Undefined, Num(250)} :
          Trace_embedding(i, [SomeEmbedding EXCEPT !.latency = l])

LatencyTraceEnd ==
    /\ CanEnd(LatencyEvents)
    /\ \E i \in Unit, l \in Latencies :
          Trace_end(i, [NoEndOptions EXCEPT !.latency = l])

LatencySpanEnd ==
    /\ CanEnd(LatencyEvents)
    /\ \E i \in Unit, l \in Latencies :
          Span_end(i, [NoEndOptions EXCEPT !.latency = l])

LatencyGenerationEnd ==
    /\ CanEnd(LatencyEvents)
    /\ \E i \in Unit, l \in Latencies :
          Generation_end(i, [NoGenerationEndOptions EXCEPT !.latency = l])

LatencyEmbeddingEnd ==
    /\ CanEnd(LatencyEvents)
    /\ \E i \in Unit, l \in Latencies :
          Embedding_end(i, [NoEmbeddingEndOptions EXCEPT !.latency = l])

NextLatency ==
    \/ LatencyTick
    \/ LatencyTrace
    \/ LatencyTraceSpan
    \/ LatencyTraceGeneration
    \/ LatencyTraceEmbedding
    \/ LatencyTraceEnd
    \/ LatencySpanEnd
    \/ LatencyGenerationEnd
    \/ LatencyEmbeddingEnd

SpecLatency == Init /\ [][NextLatency]_vars

\* ---------------------------------------------------- claims on latency

\* the wall-clock time from the construction of the unit to the end() call e
Measured(e) == Elapsed(ends[e].before.startTime, ends[e].at)

\* C11 as stated: on every kind of unit, an end() that is given a latency
\* sends an event whose latency is that value.
C11_ExplicitLatency ==
    \A e \in Sent :
        ends[e].call.latency # Undefined =>
            EventOf(e)["$ai_latency"] = Some(ends[e].call.latency)

\* C11 amended: the event of a Model-Call Unit or an Embedding Unit whose
\* end() is given a latency (zero included) has exactly that latency,
\* whatever time has passed since construction; the event of a Root Unit or
\* a Sub-Unit always has the measured time, whatever latency key the caller
\* passes to end().
C11_ExplicitLatencyOfModelCalls ==
    \A e \in Sent :
        IF ends[e].snap.kind \in {"generation", "embedding"}
           /\ ends[e].call.latency # Undefined
        THEN EventOf(e)["$ai_latency"] = Some(ends[e].call.latency)
        ELSE EventOf(e)["$ai_latency"] = Some(Measured(e))

\* C11 witness: a Model-Call Unit closed with a latency of 0.5 s two
\* milliseconds after its construction has sent an event with latency 0.5 s
C11_Witness ==
    \E e \in Sent :
        /\ ends[e].snap.kind = "generation"
        /\ Measured(e) = Num(2)
        /\ ends[e].call.latency = Num(500)
        /\ EventOf(e)["$ai_latency"] = Some(Num(500))

\* ------------------------------------------------ specification: updates
\* One Root Unit and its children; update() is called with a new name, a
\* properties map and a metadata object at once.

UpdateUnits == 2

UpdateEvents == 1

Meta1(k, v) == Some(<<<<k, v>>>>)

\* the update() calls explored, one per options type
UpdateTraceOptions ==
    [NoTraceOptions EXCEPT !.name = Str("n2"), !.properties = Map1("a", "9"),
                           !.metadata = Meta1("m", "9")]

UpdateSpanOptions ==
    [NoSpanOptions EXCEPT !.name = Str("n2"), !.properties = Map1("a", "9"),
                          !.metadata = Meta1("m", "9")]

UpdateGenerationOptions ==
    [NoGenerationOptions EXCEPT !.name = Str("n2"), !.properties = Map1("a", "9"),
                                !.metadata = Meta1("m", "9")]

UpdateTrace ==
    /\ units = << >>
    /\ \E p \in RootProps :
          PostHogLLM_trace([SomeTrace EXCEPT !.properties = p,
                                             !.metadata = Meta1("k", "1")])

UpdateTraceSpan ==
    /\ CanConstruct(UpdateUnits)
    /\ \E i \in Unit :
          Trace_span(i, [SomeSpan EXCEPT !.properties = Map1("b", "2"),
                                         !.metadata = Meta1("m", "1")])

UpdateTraceGeneration ==
    /\ CanConstruct(UpdateUnits)
    /\ \E i \in Unit :
          Trace_generation(i, [SomeGeneration EXCEPT !.properties = Map1("b", "2")])

UpdateTraceEmbedding ==
    CanConstruct(UpdateUnits) /\ \E i \in Unit : Trace_embedding(i, SomeEmbedding)

UpdateTraceUpdate == \E i \in Unit : Trace_update(i, UpdateTraceOptions)

UpdateSpanUpdate == \E i \in Unit : Span_update(i, UpdateSpanOptions)

UpdateGenerationUpdate == \E i \in Unit : Generation_update(i, UpdateGenerationOptions)

UpdateTraceEnd == CanEnd(UpdateEvents) /\ \E i \in Unit : Trace_end(i, NoEndOptions)

UpdateSpanEnd == CanEnd(UpdateEvents) /\ \E i \in Unit : Span_end(i, NoEndOptions)

UpdateGenerationEnd ==
    CanEnd(UpdateEvents) /\ \E i \in Unit : Generation_end(i, NoGenerationEndOptions)

UpdateEmbeddingEnd ==
    CanEnd(UpdateEvents) /\ \E i \in Unit : Embedding_end(i, NoEmbeddingEndOptions)

NextUpdate ==
    \/ UpdateTrace
    \/ UpdateTraceSpan
    \/ UpdateTraceGeneration
    \/ UpdateTraceEmbedding
    \/ UpdateTraceUpdate
    \/ UpdateSpanUpdate
    \/ UpdateGenerationUpdate
    \/ UpdateTraceEnd
    \/ UpdateSpanEnd
    \/ UpdateGenerationEnd
    \/ UpdateEmbeddingEnd

SpecUpdate == Init /\ [][NextUpdate]_vars

\* ----------------------------------------------------- claims on update

\* unit i has, after the step, the name, the properties and the metadata
\* that update(o) is to give it: the name of o, the maps of o merged into
\* the maps it had, the values of o winning
UpdateApplied(i, o) ==
    /\ units'[i].name = o.name
    /\ units'[i].properties = Some(MergeMaps(units[i].properties, o.properties))
    /\ units'[i].metadata = Some(MergeMeta(units[i].metadata, o.metadata))

\* C12: update() on a Root Unit, a Sub-Unit and a Model-Call Unit overwrites
\* the name given, merges the properties map and the metadata object given
\* into the unit's own, the given values winning and the other keys kept.
C12_UpdateMerges ==
    [][\A i \in Unit :
          /\ Trace_update(i, UpdateTraceOptions) => UpdateApplied(i, UpdateTraceOptions)
          /\ Span_update(i, UpdateSpanOptions) => UpdateApplied(i, UpdateSpanOptions)
          /\ Generation_update(i, UpdateGenerationOptions)
                => UpdateApplied(i, UpdateGenerationOptions)]_vars

\* ----------------------------------------------- specification: subjects
\* init() sets or clears the default distinct id; Root Units are created
\* with and without a userEmail and a distinctId, and ended.

SubjectUnits == 2

SubjectEvents == 1

DefaultDistinctIds == {Some(Str("dflt")), Some(Undefined)}

\* the PostHogLLM.trace calls explored
SubjectCalls ==
    {[SomeTrace EXCEPT !.userEmail = e, !.distinctId = d] :
        e \in Emails, d \in DistinctIds}

SubjectInit ==
    /\ client = 0
    /\ \E d \in DefaultDistinctIds :
          PostHogLLM_init([NoPostHogLLMOptions EXCEPT !.defaultDistinctId = d])

SubjectTrace == CanConstruct(SubjectUnits) /\ \E o \in SubjectCalls : PostHogLLM_trace(o)

SubjectTraceEnd ==
    CanEnd(SubjectEvents) /\ \E i \in Unit : Trace_end(i, NoEndOptions)

NextSubject ==
    \/ SubjectInit
    \/ SubjectTrace
    \/ SubjectTraceEnd

SpecSubject == Init /\ [][NextSubject]_vars

\* --------------------------------------------------- claims on subjects

\* the step has added a Root Unit that carries the subject identifier id
TraceBuilt(id) ==
    /\ raised' = ""
    /\ Len(units') = Len(units) + 1
    /\ units'[Len(units')].kind = "trace"
    /\ units'[Len(units')].distinctId = id

\* the step has raised the error of Trace.constructor and has left the
\* units and the sink as they were
TraceRefused ==
    /\ raised' = NoDistinctIdTrace
    /\ units' = units
    /\ sink' = sink

\* C13 as stated: PostHogLLM.trace builds a Root Unit exactly when the call
\* gives a userEmail or a distinctId or a default distinct id is configured,
\* and the unit carries the identifier so resolved; otherwise it raises an
\* error, no unit exists and nothing is sent.
C13_SubjectOrDefault ==
    [][\A o \in SubjectCalls :
          PostHogLLM_trace(o) =>
              LET id == OrElse(o.userEmail, OrElse(o.distinctId, options.defaultDistinctId))
              IN IF Truthy(id) THEN TraceBuilt(id) ELSE TraceRefused]_vars

\* C13 amended: PostHogLLM.trace builds a Root Unit exactly when the call
\* itself gives a userEmail or a distinctId, and the unit carries the
\* userEmail if given, else the distinctId; otherwise it raises an error,
\* whether or not a default distinct id is configured, no unit exists and
\* nothing is sent.
C13_SubjectFromCall ==
    [][\A o \in SubjectCalls :
          PostHogLLM_trace(o) =>
              LET id == OrElse(o.userEmail, o.distinctId)
              IN IF Truthy(id) THEN TraceBuilt(id) ELSE TraceRefused]_vars

\* C13 witness: with a default distinct id configured, a call that gave a
\* userEmail has built a Root Unit carrying it, and a later call that gave
\* neither has raised the error and built nothing
C13_Witness ==
    /\ options.defaultDistinctId = Str("dflt")
    /\ raised = NoDistinctIdTrace
    /\ Len(units) = 1
    /\ units[1].distinctId = Str("e@x")
    /\ sink = << >>

\* ------------------------------------------------ specification: names
\* Units of the four kinds are constructed with and without a name and
\* ended.

NameUnits == 3

NameEvents == 1

Names == {Undefined, Str("n")}

NameTrace ==
    /\ units = << >>
    /\ \E n \in Names : PostHogLLM_trace([SomeTrace EXCEPT !.name = n])

NameTraceSpan ==
    /\ CanConstruct(NameUnits)
    /\ \E i \in Unit, n \in Names : Trace_span(i, [SomeSpan EXCEPT !.name = n])

NameTraceGeneration ==
    /\ CanConstruct(NameUnits)
    /\ \E i \in Unit, n \in Names :
          Trace_generation(i, [SomeGeneration EXCEPT !.name = n])

NameTraceEmbedding ==
    /\ CanConstruct(NameUnits)
    /\ \E i \in Unit, n \in Names :
          Trace_embedding(i, [SomeEmbedding EXCEPT !.name = n])

NameTraceEnd == CanEnd(NameEvents) /\ \E i \in Unit : Trace_end(i, NoEndOptions)

NameSpanEnd == CanEnd(NameEvents) /\ \E i \in Unit : Span_end(i, NoEndOptions)

NameGenerationEnd ==
    CanEnd(NameEvents) /\ \E i \in Unit : Generation_end(i, NoGenerationEndOptions)

NameEmbeddingEnd ==
    CanEnd(NameEvents) /\ \E i \in Unit : Embedding_end(i, NoEmbeddingEndOptions)

NextName ==
    \/ NameTrace
    \/ NameTraceSpan
    \/ NameTraceGeneration
    \/ NameTraceEmbedding
    \/ NameTraceEnd
    \/ NameSpanEnd
    \/ NameGenerationEnd
    \/ NameEmbeddingEnd

SpecName == Init /\ [][NextName]_vars

\* ------------------------------------------------------ claims on names

\* the name an event carries, if any
NameField(e) == EventOf(e)["$ai_span_name"]

\* the step has added a unit of the given kind that carries the name n
NamedBuilt(kind, n) ==
    /\ raised' = ""
    /\ Len(units') = Len(units) + 1
    /\ units'[Len(units')].kind = kind
    /\ units'[Len(units')].name = n

CustomUnits == 2

CustomEvents == 1

\* custom properties under the names of event fields
CustomProps ==
    {Map1("$ai_trace_id", "mine"), Map1("$ai_metadata", "mine"),
     Map1("$ai_input_state", "mine")}

CustomMetadata == {None, Meta1("m", "9")}

CustomTrace ==
    /\ units = << >>
    /\ \E p \in CustomProps, m \in CustomMetadata :
          PostHogLLM_trace([SomeTrace EXCEPT
              !.properties = p, !.metadata = m, !.inputState = Str("in")])

CustomTraceSpan ==
    /\ CanConstruct(CustomUnits)
    /\ \E i \in Unit, p \in CustomProps, m \in CustomMetadata :
          Trace_span(i, [SomeSpan EXCEPT
              !.properties = p, !.metadata = m, !.inputState = Str("in")])

CustomTraceGeneration ==
    /\ CanConstruct(CustomUnits)
    /\ \E i \in Unit, p \in CustomProps, m \in CustomMetadata :
          Trace_generation(i, [SomeGeneration EXCEPT !.properties = p, !.metadata = m])

CustomTraceEmbedding ==
    /\ CanConstruct(CustomUnits)
    /\ \E i \in Unit, p \in CustomProps, m \in CustomMetadata :
          Trace_embedding(i, [SomeEmbedding EXCEPT !.properties = p, !.metadata = m])

CustomTraceEnd == CanEnd(CustomEvents) /\ \E i \in Unit : Trace_end(i, NoEndOptions)

CustomSpanEnd == CanEnd(CustomEvents) /\ \E i \in Unit : Span_end(i, NoEndOptions)

CustomGenerationEnd ==
    CanEnd(CustomEvents) /\ \E i \in Unit : Generation_end(i, NoGenerationEndOptions)

CustomEmbeddingEnd ==
    CanEnd(CustomEvents) /\ \E i \in Unit : Embedding_end(i, NoEmbeddingEndOptions)

NextCustom ==
    \/ CustomTrace
    \/ CustomTraceSpan
    \/ CustomTraceGeneration
    \/ CustomTraceEmbedding
    \/ CustomTraceEnd
    \/ CustomSpanEnd
    \/ CustomGenerationEnd
    \/ CustomEmbeddingEnd

SpecCustom == Init /\ [][NextCustom]_vars

\* ------------------------------------------ claims on custom properties

\* the fields every properties literal writes before it spreads the custom
\* properties
LiteralFields == {"$ai_trace_id", "$ai_latency", "$ai_is_error"}

\* C15 as stated: in every event that was sent, each key of the unit's
\* custom properties holds the custom value, whatever event field has the
\* same name.
C15_CustomLast ==
    \A e \in Sent :
        \A k \in Keys(ends[e].snap.properties) :
            EventOf(e)[k] = CustomField(ends[e].snap, k)

\* C15 amended: in every event that was sent, a custom property named as a
\* field of the properties literal holds the custom value; a custom property
\* named "$ai_metadata" holds the custom value only when the unit has no
\* metadata, and the unit's serialized metadata otherwise; a custom property
\* named "$ai_input_state" of a Root Unit or Sub-Unit whose input state was
\* written holds the serialized input state.
C15_CustomOverLiteralOnly ==
    \A e \in Sent :
        LET u == ends[e].snap
        IN \A k \in Keys(u.properties) :
              /\ k \in LiteralFields => EventOf(e)[k] = CustomField(u, k)
              /\ k = "$ai_metadata" =>
                    EventOf(e)[k] = IF u.metadata = None THEN CustomField(u, k)
                                    ELSE Some(MetaJSON(u.metadata[1]))
              /\ (k = "$ai_input_state" /\ u.kind \in {"trace", "span"}) =>
                    EventOf(e)[k] = Some(JSONstringify(u.inputState))
              /\ (k = "$ai_input_state" /\ u.kind \in {"generation", "embedding"}) =>
                    EventOf(e)[k] = CustomField(u, k)

\* C15 witness: a Model-Call Unit with metadata and a custom property named
\* "$ai_metadata" has sent its event, which holds the unit's metadata there
C15_Witness ==
    \E e \in Sent :
        /\ ends[e].snap.kind = "generation"
        /\ "$ai_metadata" \in Keys(ends[e].snap.properties)
        /\ ends[e].snap.metadata # None
        /\ EventOf(e)["$ai_metadata"] # CustomField(ends[e].snap, "$ai_metadata")

\* ------------------------------------------------- claims on the tree
\* checked under SpecIds, whose calls are those of every method that
\* creates a unit

KindOf(i) == units[i].kind

\* C16: a unit without a parent is a Root Unit; the parent of a unit is a
\* Root Unit or a Sub-Unit; the children of a Sub-Unit are Sub-Units; and the
\* parent of a Model-Call or an Embedding Unit is a Root Unit. Hence no
\* Model-Call or Embedding Unit is a parent.
C16_TreeShape ==
    \A c \in Unit :
        IF hist[c].parent = 0 THEN KindOf(c) = "trace"
        ELSE /\ KindOf(c) # "trace"
             /\ KindOf(hist[c].parent) \in {"trace", "span"}
             /\ KindOf(hist[c].parent) = "span" => KindOf(c) = "span"
             /\ KindOf(c) \in {"generation", "embedding"}
                   => KindOf(hist[c].parent) = "trace"

\* C16 witness: a Sub-Unit has created a Sub-Unit, below a Root Unit
C16_Witness ==
    \E c \in Unit :
        /\ hist[c].parent # 0
        /\ KindOf(c) = "span"
        /\ KindOf(hist[c].parent) = "span"
        /\ KindOf(RootOf(c)) = "trace"

\* ------------------------------------------ specification: two trees
\* Two Root Units are constructed, given children, updated and ended in
\* every order. Both are given the same id, so that a unit of one tree can be
\* compared in whole with its like in the other.

TreesRoots == 2

TreesUnits == 3

TreesEvents == 2

TreesTraceIds == {Str("x")}

TreesSpanOptions == [SomeSpan EXCEPT !.id = Str("s")]

TreesTrace ==
    /\ Cardinality(Roots) < TreesRoots
    /\ CanConstruct(TreesUnits)
    /\ \E id \in TreesTraceIds : PostHogLLM_trace([SomeTrace EXCEPT !.id = id])

TreesTraceSpan ==
    CanConstruct(TreesUnits) /\ \E i \in Unit : Trace_span(i, TreesSpanOptions)

TreesTraceGeneration ==
    CanConstruct(TreesUnits) /\ \E i \in Unit : Trace_generation(i, SomeGeneration)

TreesTraceUpdate == \E i \in Unit : Trace_update(i, UpdateTraceOptions)

TreesTraceEnd == CanEnd(TreesEvents) /\ \E i \in Unit : Trace_end(i, NoEndOptions)

TreesSpanEnd == CanEnd(TreesEvents) /\ \E i \in Unit : Span_end(i, NoEndOptions)

TreesGenerationEnd ==
    CanEnd(TreesEvents) /\ \E i \in Unit : Generation_end(i, NoGenerationEndOptions)

NextTrees ==
    \/ TreesTrace
    \/ TreesTraceSpan
    \/ TreesTraceGeneration
    \/ TreesTraceUpdate
    \/ TreesTraceEnd
    \/ TreesSpanEnd
    \/ TreesGenerationEnd

SpecTrees == Init /\ [][NextTrees]_vars

\* ------------------------------------------------- claims on two trees

\* the step leaves the tree of root r as it was: its units are as they were,
\* no unit is added to it, what was sent is as it was, and no unit of it has
\* ended
TreeKept(r) ==
    /\ \A j \in Unit : RootOf(j) = r => units'[j] = units[j] /\ hist'[j] = hist[j]
    /\ \A j \in (Len(units) + 1)..Len(units') :
          hist'[j].parent = 0 \/ RootOf(hist'[j].parent) # r
    /\ SubSeq(sink', 1, Len(sink)) = sink
    /\ SubSeq(ends', 1, Len(ends)) = ends
    /\ \A e \in (Len(ends) + 1)..Len(ends') : RootOf(ends'[e].unit) # r

\* the step changes one tree at most
OtherTreesKept == \A r1, r2 \in Roots : r1 # r2 => TreeKept(r1) \/ TreeKept(r2)

\* a unit with the readings of the clock left out
Timeless(u) == [u EXCEPT !.startTime = 0, !.latency = Undefined]

\* an event with the latency left out
TimelessEvent(ev) == [ev EXCEPT !.properties["$ai_latency"] = None]

\* what a unit takes from its parent when it is created
Inherited(c) ==
    IF hist[c].parent = 0 THEN << >>
    ELSE <<units[hist[c].parent].kind, units[hist[c].parent].id,
           units[hist[c].parent].traceId, units[hist[c].parent].distinctId,
           ParentProps(c)>>

Generated == {c \in Unit : KindOf(c) \in {"trace", "span"} /\ ~Truthy(hist[c].call.id)}

\* C18: the ids of the Root Units and Sub-Units constructed without an id of
\* the caller's are present and pairwise distinct, in every state, whatever
\* was constructed, updated or ended since.
C18_GeneratedIdsDistinct ==
    \A c1, c2 \in Generated :
        /\ Truthy(units[c1].id)
        /\ c1 # c2 => units[c1].id # units[c2].id

\* C18 witness: a Root Unit, a Sub-Unit of it and a Sub-Unit of that one were
\* all constructed without an id of the caller's
C18_Witness ==
    /\ Cardinality(Generated) = 3
    /\ \E c \in Generated : hist[c].parent # 0 /\ KindOf(hist[c].parent) = "span"

\* ------------------------------------------------ specification: outputs
\* Model-Call Units are constructed with and without an output and ended
\* with outputs of every shape.

OutputUnits == 3

OutputEvents == 2

\* outputs a caller may pass: none, an empty text, a text, a list of
\* choices, an empty list, an object
Outputs ==
    {Undefined, Str(""), Str("Paris"),
     Arr("[{\"role\":\"assistant\",\"content\":\"Paris\"}]"), Arr("[]"),
     Obj("{\"text\":\"Paris\"}")}

OutputTrace == units = << >> /\ PostHogLLM_trace(SomeTrace)

OutputTraceGeneration ==
    /\ CanConstruct(OutputUnits)
    /\ \E i \in Unit, out \in {Undefined, Str(""), Str("draft")} :
          Trace_generation(i, [SomeGeneration EXCEPT !.output = out])

OutputGenerationEnd ==
    /\ CanEnd(OutputEvents)
    /\ \E i \in Unit, out \in Outputs :
          Generation_end(i, [NoGenerationEndOptions EXCEPT !.output = out])

NextOutput ==
    \/ OutputTrace
    \/ OutputTraceGeneration
    \/ OutputGenerationEnd

SpecOutput == Init /\ [][NextOutput]_vars

\* ----------------------------------------------------- claims on outputs

\* the output field of an event
OutputField(e) == EventOf(e)["$ai_output_choices"]

\* the text of a list of one choice, of role "assistant" and content v
DefaultRoleList(v) ==
    Str("[{\"role\":\"assistant\",\"content\":" \o JSONstringify(v).s \o "}]")

\* C19 as stated: the event of a Model-Call Unit holds the unit's output as
\* it is when it is a list, as a list of one choice of role "assistant" when
\* it is any other value, and holds no output field when the unit has no
\* output.
C19_OutputByShape ==
    \A e \in SentEnds("generation") :
        LET out == ends[e].snap.output
        IN CASE out.t = "undefined" -> OutputField(e) = None
             [] out.t = "array" -> OutputField(e) = Some(JSONstringify(out))
             [] OTHER -> OutputField(e) = Some(DefaultRoleList(out))

\* C19 amended: the event of a Model-Call Unit holds the unit's output as
\* it is when it is a list, as a list of one choice of role "assistant" when
\* it is any other truthy value, and holds no output field when the output
\* is falsy, be it absent or an empty text.
C19_OutputByTruth ==
    \A e \in SentEnds("generation") :
        LET out == ends[e].snap.output
        IN CASE ~Truthy(out) -> OutputField(e) = None
             [] out.t = "array" -> OutputField(e) = Some(JSONstringify(out))
             [] OTHER -> OutputField(e) = Some(DefaultRoleList(out))

\* C19 witness: one Model-Call Unit ended with a text has sent it wrapped,
\* and another, constructed with an empty text and ended with one, has sent
\* no output field
C19_Witness ==
    \E e1, e2 \in SentEnds("generation") :
        /\ ends[e1].snap.output = Str("Paris")
        /\ OutputField(e1) = Some(Str("[{\"role\":\"assistant\",\"content\":\"Paris\"}]"))
        /\ ends[e2].call.output = Str("")
        /\ ends[e2].snap.output = Str("")
        /\ OutputField(e2) = None

\* ------------------------------------------------ claims on event names
\* checked under SpecName, where units of the four kinds are ended

\* the event names the README lists, by kind of unit
EventNames ==
    [trace |-> "$ai_trace", span |-> "$ai_span",
     generation |-> "$ai_generation", embedding |-> "$ai_embedding"]

\* C20: the name of every event that was sent is the name listed for the
\* kind of the unit that sent it, and the names of the four kinds are
\* pairwise distinct, so no unit sends an event under the name of another
\* kind.
C20_EventNameByKind ==
    /\ \A k1, k2 \in DOMAIN EventNames : k1 # k2 => EventNames[k1] # EventNames[k2]
    /\ \A e \in Sent :
          /\ ends[e].snap.kind \in DOMAIN EventNames
          /\ sink[ends[e].sent].event = EventNames[ends[e].snap.kind]

\* C20 witness: an Embedding Unit has sent its event, named "$ai_embedding"
C20_Witness ==
    \E e \in Sent :
        /\ ends[e].snap.kind = "embedding"
        /\ sink[ends[e].sent].event = "$ai_embedding"

\* ---------------------------------------------- specification: durations
\* Units of the four kinds are ended more than once while the clock
\* advances, Model-Call and Embedding Units with and without a latency of
\* the caller's.

DurationUnits == 2

DurationEvents == 2

DurationClock == 2

DurationLatencies == {Undefined, Num(500)}

DurationTick == now < DurationClock /\ Tick

DurationTrace == units = << >> /\ PostHogLLM_trace(SomeTrace)

DurationTraceSpan ==
    CanConstruct(DurationUnits) /\ \E i \in Unit : Trace_span(i, SomeSpan)

DurationTraceGeneration ==
    CanConstruct(DurationUnits) /\ \E i \in Unit : Trace_generation(i, SomeGeneration)

DurationTraceEmbedding ==
    CanConstruct(DurationUnits) /\ \E i \in Unit : Trace_embedding(i, SomeEmbedding)

DurationTraceEnd ==
    CanEnd(DurationEvents) /\ \E i \in Unit : Trace_end(i, NoEndOptions)

DurationSpanEnd ==
    CanEnd(DurationEvents) /\ \E i \in Unit : Span_end(i, NoEndOptions)

DurationGenerationEnd ==
    /\ CanEnd(DurationEvents)
    /\ \E i \in Unit, l \in DurationLatencies :
          Generation_end(i, [NoGenerationEndOptions EXCEPT !.latency = l])

DurationEmbeddingEnd ==
    /\ CanEnd(DurationEvents)
    /\ \E i \in Unit, l \in DurationLatencies :
          Embedding_end(i, [NoEmbeddingEndOptions EXCEPT !.latency = l])

NextDuration ==
    \/ DurationTick
    \/ DurationTrace
    \/ DurationTraceSpan
    \/ DurationTraceGeneration
    \/ DurationTraceEmbedding
    \/ DurationTraceEnd
    \/ DurationSpanEnd
    \/ DurationGenerationEnd
    \/ DurationEmbeddingEnd

SpecDuration == Init /\ [][NextDuration]_vars

\* --------------------------------------------------- claims on durations

\* the latency an event reports
LatencyField(e) == EventOf(e)["$ai_latency"]

\* the Ends that were given no latency and have sent their event
MeasuredEnds == {e \in Sent : ends[e].call.latency = Undefined}

\* C21: an End that is given no latency reports the time of that End less
\* the time of construction, in thousandths of a second, which is never
\* negative; this holds of every End, so that an End after one that was given
\* a latency does not report that latency again; and of two such Ends of one
\* unit the later reports no less than the earlier.
C21_MeasuredDuration ==
    /\ \A e \in MeasuredEnds :
          /\ LatencyField(e) = Some(Num(ends[e].at - hist[ends[e].unit].unit0.startTime))
          /\ LatencyField(e)[1].n >= 0
    /\ \A e1, e2 \in MeasuredEnds :
          (e1 < e2 /\ ends[e1].unit = ends[e2].unit)
              => LatencyField(e1)[1].n <= LatencyField(e2)[1].n

\* C21 witness: a Model-Call Unit ended with a latency of 0.5 s has been
\* ended again, later and with no latency, and the second event reports the
\* two milliseconds measured
C21_Witness ==
    \E e1, e2 \in Sent :
        /\ e1 < e2
        /\ ends[e1].unit = ends[e2].unit
        /\ ends[e1].snap.kind = "generation"
        /\ ends[e1].call.latency = Num(500)
        /\ LatencyField(e1) = Some(Num(500))
        /\ ends[e2].call.latency = Undefined
        /\ LatencyField(e2) = Some(Num(2))

\* ------------------------------------------------ claims on the trace id
\* checked under SpecIds, with ids generated and ids of the caller's

\* the id of the Root Unit above unit c
TraceIdOf(c) == units[RootOf(c)].id

\* C22: every unit below a Root Unit, at any depth, holds the Root Unit's id
\* as its trace id; every event that was sent carries that id in its trace-id
\* field; and the event of a Root Unit carries it in its span-id field too.
C22_TraceBackReference ==
    /\ \A c \in Children : units[c].traceId = TraceIdOf(c)
    /\ \A e \in Sent :
          /\ EventOf(e)["$ai_trace_id"] = Some(TraceIdOf(ends[e].unit))
          /\ ends[e].snap.kind = "trace"
                => EventOf(e)["$ai_span_id"] = Some(TraceIdOf(ends[e].unit))

\* C22 witness: a Sub-Unit of a Sub-Unit, both with ids of their own, has
\* sent its event, whose trace id is the generated id of the Root Unit
C22_Witness ==
    \E e \in Sent :
        LET c == ends[e].unit
        IN /\ hist[c].parent # 0
           /\ KindOf(hist[c].parent) = "span"
           /\ units[c].id # TraceIdOf(c)
           /\ units[hist[c].parent].id # TraceIdOf(c)
           /\ ~Truthy(hist[RootOf(c)].call.id)
           /\ EventOf(e)["$ai_trace_id"] = Some(TraceIdOf(c))

\* ------------------------------------------------- specification: tokens
\* Model-Call and Embedding Units are constructed with and without an
\* input-token count and ended with and without one.

TokensUnits == 3

TokensEvents == 1

\* the End options explored: token counts and a status, each given or not
TokensGenerationEndOptions ==
    {[NoGenerationEndOptions EXCEPT !.inputTokens = i, !.outputTokens = o,
                                    !.httpStatus = h] :
        i \in {Undefined, Num(7)}, o \in {Undefined, Num(3)},
        h \in {Undefined, Num(200)}}

TokensEmbeddingEndOptions ==
    {[NoEmbeddingEndOptions EXCEPT !.inputTokens = i, !.httpStatus = h] :
        i \in {Undefined, Num(7)}, h \in {Undefined, Num(200)}}

TokensTrace == units = << >> /\ PostHogLLM_trace(SomeTrace)

TokensTraceGeneration ==
    /\ CanConstruct(TokensUnits)
    /\ \E i \in Unit, n \in {Undefined, Num(5)} :
          Trace_generation(i, [SomeGeneration EXCEPT !.inputTokens = n])

TokensTraceEmbedding ==
    /\ CanConstruct(TokensUnits)
    /\ \E i \in Unit, n \in {Undefined, Num(5)} :
          Trace_embedding(i, [SomeEmbedding EXCEPT !.inputTokens = n])

TokensGenerationEnd ==
    /\ CanEnd(TokensEvents)
    /\ \E i \in Unit, o \in TokensGenerationEndOptions : Generation_end(i, o)

TokensEmbeddingEnd ==
    /\ CanEnd(TokensEvents)
    /\ \E i \in Unit, o \in TokensEmbeddingEndOptions : Embedding_end(i, o)

NextTokens ==
    \/ TokensTrace
    \/ TokensTraceGeneration
    \/ TokensTraceEmbedding
    \/ TokensGenerationEnd
    \/ TokensEmbeddingEnd

SpecTokens == Init /\ [][NextTokens]_vars

\* ------------------------------------------------ claims on End options

\* a field of the event holds the value v that an End was given
Reported(e, k, v) == v # Undefined => EventOf(e)[k] = Some(v)

\* C23: the event of a Model-Call Unit or an Embedding Unit reports the
\* input-token count that its End was given, as it reports the status and,
\* for a Model-Call Unit, the output-token count that its End was given.
C23_EndOptionsApplied ==
    \A e \in Sent :
        /\ Reported(e, "$ai_input_tokens", ends[e].call.inputTokens)
        /\ Reported(e, "$ai_http_status", ends[e].call.httpStatus)
        /\ ends[e].snap.kind = "generation"
              => Reported(e, "$ai_output_tokens", ends[e].call.outputTokens)

\* ------------------------------------------ specification: update frame
\* A Root Unit and its children are updated, any number of times, with
\* options that set nothing, one field, or the identity fields.

FrameUnits == 3

FrameTraceOptions ==
    {NoTraceOptions,
     [NoTraceOptions EXCEPT !.name = Str("n2")],
     [NoTraceOptions EXCEPT !.properties = Map1("a", "9")],
     [NoTraceOptions EXCEPT !.id = Str("z"), !.userEmail = Str("o@x"),
                            !.distinctId = Str("other")]}

FrameSpanOptions ==
    {NoSpanOptions,
     [NoSpanOptions EXCEPT !.name = Str("n2")],
     [NoSpanOptions EXCEPT !.id = Str("z"), !.distinctId = Str("other")]}

FrameGenerationOptions ==
    {NoGenerationOptions,
     [NoGenerationOptions EXCEPT !.inputTokens = Num(0)],
     [NoGenerationOptions EXCEPT !.distinctId = Str("other"), !.latency = Num(500)]}

FrameTrace == units = << >> /\ PostHogLLM_trace(SomeTrace)

FrameTraceSpan == CanConstruct(FrameUnits) /\ \E i \in Unit : Trace_span(i, SomeSpan)

FrameSpanSpan == CanConstruct(FrameUnits) /\ \E i \in Unit : Span_span(i, SomeSpan)

FrameTraceGeneration ==
    CanConstruct(FrameUnits) /\ \E i \in Unit : Trace_generation(i, SomeGeneration)

FrameTraceUpdate == \E i \in Unit, o \in FrameTraceOptions : Trace_update(i, o)

FrameSpanUpdate == \E i \in Unit, o \in FrameSpanOptions : Span_update(i, o)

FrameGenerationUpdate ==
    \E i \in Unit, o \in FrameGenerationOptions : Generation_update(i, o)

NextFrame ==
    \/ FrameTrace
    \/ FrameTraceSpan
    \/ FrameSpanSpan
    \/ FrameTraceGeneration
    \/ FrameTraceUpdate
    \/ FrameSpanUpdate
    \/ FrameGenerationUpdate

SpecFrame == Init /\ [][NextFrame]_vars

\* ------------------------------------------------- claims on the frame

\* the fields of unit i that the step changes
Changed(i) == {f \in DOMAIN units[i] : units'[i][f] # units[i][f]}

\* the fields that the options o set
Present(o) == {f \in DOMAIN o : o[f] # Undefined /\ o[f] # None}

\* the fields no update may change
IdentityFields == {"kind", "id", "traceId", "parentId", "distinctId", "startTime"}

\* the step, an update of unit i with options o, keeps to its frame
UpdateFramed(i, o) ==
    /\ Len(units') = Len(units)
    /\ Changed(i) \subseteq Present(o) \ IdentityFields
    /\ \A j \in Unit \ {i} : units'[j] = units[j]
    /\ sink' = sink

\* C24: an update of a Root Unit, a Sub-Unit or a Model-Call Unit changes
\* only fields that its options set, hence none when they set none; it never
\* changes the unit's id, trace id, parent id, subject identifier or time of
\* construction, even when the options name them; and it changes no other
\* unit.
C24_UpdateFrame ==
    [][\A i \in Unit :
          /\ \A o \in FrameTraceOptions : Trace_update(i, o) => UpdateFramed(i, o)
          /\ \A o \in FrameSpanOptions : Span_update(i, o) => UpdateFramed(i, o)
          /\ \A o \in FrameGenerationOptions :
                Generation_update(i, o) => UpdateFramed(i, o)]_vars

\* C24 witness: a Root Unit that has been renamed and given a property holds
\* the id and the subject identifier it was constructed with, and its two
\* children are as they were constructed
C24_Witness ==
    /\ Len(units) = 3
    /\ units[1].name = Str("n2")
    /\ "a" \in Keys(units[1].properties)
    /\ units[1].id = hist[1].unit0.id
    /\ units[1].distinctId = hist[1].unit0.distinctId
    /\ units[2] = hist[2].unit0
    /\ units[3] = hist[3].unit0

\* ------------------------------------- claims on the subject of a child
\* checked under SpecIds, where a Root Unit is constructed with and without
\* a userEmail and a distinctId

\* the step has added a unit and has raised nothing
ChildBuilt == raised' = "" /\ Len(units') = Len(units) + 1

\* every call of a method that creates a child has built it
ChildCallsBuild ==
    \A i \in Unit :
        /\ \A id \in SpanIds :
              /\ Trace_span(i, [SomeSpan EXCEPT !.id = id, !.distinctId = Str("other")])
                    => ChildBuilt
              /\ Span_span(i, [SomeSpan EXCEPT !.id = id, !.distinctId = Str("other")])
                    => ChildBuilt
        /\ Trace_generation(i, [SomeGeneration EXCEPT !.distinctId = Str("other")])
              => ChildBuilt
        /\ Trace_embedding(i, [SomeEmbedding EXCEPT !.distinctId = Str("other")])
              => ChildBuilt

\* the constructors of the three kinds of child, given no distinct id or an
\* empty one, throw
ChildCtorsRefuse ==
    \A d \in {Undefined, Str("")} :
        /\ SpanCtor(Str("t"), Undefined, [SomeSpan EXCEPT !.distinctId = d],
                    Uuid(1), 0).thrown = NoDistinctIdSpan
        /\ GenerationCtor(Str("t"), [SomeGeneration EXCEPT !.distinctId = d], 0).thrown
              = NoDistinctIdGeneration
        /\ EmbeddingCtor(Str("t"), [SomeEmbedding EXCEPT !.distinctId = d], 0).thrown
              = NoDistinctIdEmbedding

\* C25: every unit holds a non-empty subject identifier in every state; the
\* constructor of a Sub-Unit, a Model-Call Unit or an Embedding Unit throws
\* when it is given none; and no call of a method of a Root Unit or a
\* Sub-Unit that creates a child ever raises that error: each builds its
\* child.
C25_SubjectAlwaysPresent ==
    /\ [](\A c \in Unit : Truthy(units[c].distinctId))
    /\ [](ChildCtorsRefuse)
    /\ [][ChildCallsBuild]_vars

\* C25 witness: a Root Unit constructed with a distinctId only has an
\* Embedding Unit and a Sub-Unit, both holding that distinctId, and the last
\* call raised nothing
C25_Witness ==
    /\ Len(units) = 3
    /\ raised = ""
    /\ ~Truthy(hist[1].call.userEmail)
    /\ \E c \in Unit : KindOf(c) = "embedding"
    /\ \E c \in Unit : KindOf(c) = "span"
    /\ \A c \in Unit : units[c].distinctId = Str("user-1")

\* ------------------------------------------------ specification: closure
\* A Root Unit with a property of its own and its Sub-Units are ended in
\* every order, and units are created and updated before and after the End
\* of their parent.

CloseUnits == 3

CloseEvents == 2

CloseTraceOptions == [SomeTrace EXCEPT !.properties = Map1("a", "1")]

CloseSpanUpdateOptions == [NoSpanOptions EXCEPT !.name = Str("n2")]

CloseTraceUpdateOptions == [NoTraceOptions EXCEPT !.properties = Map1("a", "9")]

CloseTrace == units = << >> /\ PostHogLLM_trace(CloseTraceOptions)

CloseTraceSpan == CanConstruct(CloseUnits) /\ \E i \in Unit : Trace_span(i, SomeSpan)

CloseSpanSpan == CanConstruct(CloseUnits) /\ \E i \in Unit : Span_span(i, SomeSpan)

CloseTraceUpdate == \E i \in Unit : Trace_update(i, CloseTraceUpdateOptions)

CloseSpanUpdate == \E i \in Unit : Span_update(i, CloseSpanUpdateOptions)

CloseTraceEnd == CanEnd(CloseEvents) /\ \E i \in Unit : Trace_end(i, NoEndOptions)

CloseSpanEnd == CanEnd(CloseEvents) /\ \E i \in Unit : Span_end(i, NoEndOptions)

NextClose ==
    \/ CloseTrace
    \/ CloseTraceSpan
    \/ CloseSpanSpan
    \/ CloseTraceUpdate
    \/ CloseSpanUpdate
    \/ CloseTraceEnd
    \/ CloseSpanEnd

SpecClose == Init /\ [][NextClose]_vars

\* ---------------------------------------------------- claims on closure

\* history: unit i has ended at least once
Ended(i) == \E e \in 1..Len(ends) : ends[e].unit = i

\* the step, an End of unit i, changes no other unit, creates none, and
\* sends one event at most, that of unit i
EndOfOne(i) ==
    /\ Len(units') = Len(units)
    /\ \A j \in Unit \ {i} : units'[j] = units[j]
    /\ Len(ends') = Len(ends) + 1
    /\ ends'[Len(ends')].unit = i
    /\ \/ sink' = sink /\ ends'[Len(ends')].sent = 0
       \/ /\ Len(sink') = Len(sink) + 1
          /\ SubSeq(sink', 1, Len(sink)) = sink
          /\ ends'[Len(ends')].sent = Len(sink')
          /\ sink'[Len(sink')].event = EventNames[KindOf(i)]

\* the step has built a child of unit i that is linked as a child of i is
EndedParentBuilds(i) ==
    LET c == units'[Len(units')]
    IN /\ ChildBuilt
       /\ c.traceId = TraceIdOf(i)
       /\ c.kind = "span" => c.parentId = IF KindOf(i) = "span" THEN units[i].id
                                           ELSE Undefined
       /\ c.distinctId = units[i].distinctId
       /\ \A k \in Keys(units[i].properties) :
             Spread(c.properties)[k] = Spread(units[i].properties)[k]

\* every End is an End of one unit, and a unit whose parent has ended is
\* created, updated and ended as any other
ClosureLeavesTree ==
    \A i \in Unit :
        /\ Trace_end(i, NoEndOptions) => EndOfOne(i)
        /\ Span_end(i, NoEndOptions) => EndOfOne(i)
        /\ (Ended(i) /\ Trace_span(i, SomeSpan)) => EndedParentBuilds(i)
        /\ (Ended(i) /\ Span_span(i, SomeSpan)) => EndedParentBuilds(i)
        /\ (hist[i].parent # 0 /\ Ended(hist[i].parent)
               /\ Span_update(i, CloseSpanUpdateOptions))
              => units'[i] = [units[i] EXCEPT !.name = Str("n2")]

\* the events are in the sink in the order of the Ends that sent them, and
\* the sink holds nothing else
SinkInEndOrder ==
    /\ \A e1, e2 \in Sent : e1 < e2 => ends[e1].sent < ends[e2].sent
    /\ Len(sink) = Cardinality(Sent)
    /\ \A e \in Sent : sink[ends[e].sent].event = EventNames[ends[e].snap.kind]

\* C26: an End of a Root Unit or a Sub-Unit sends that unit's event alone
\* and changes no other unit; once the parent has ended, a child is still
\* created on it with the same trace id, parent id, subject identifier and
\* inherited properties, and its children are still updated and ended; and
\* the events are in the sink in the order of the End calls.
C26_ClosureLeavesDescendants ==
    /\ [][ClosureLeavesTree]_vars
    /\ [](SinkInEndOrder)

\* C26 witness: a Root Unit has ended and sent its event while its property
\* was "1"; the property was then updated to "9", and a Sub-Unit created on
\* the Root Unit after that, holding "9", has ended and sent its own event,
\* which follows that of the Root Unit in the sink
C26_Witness ==
    \E e1, e2 \in Sent :
        LET c == ends[e2].unit
        IN /\ e1 < e2
           /\ KindOf(ends[e1].unit) = "trace"
           /\ hist[c].parent = ends[e1].unit
           /\ KindOf(c) = "span"
           /\ Spread(ends[e1].before.properties)["a"] = Some("1")
           /\ Spread(hist[c].unit0.properties)["a"] = Some("9")
           /\ sink[ends[e1].sent].event = "$ai_trace"
           /\ sink[ends[e2].sent].event = "$ai_span"

\* ------------------------------------------- specification: privacy flag
\* The process-wide default is set and set again, before and after a Root
\* Unit with an input state is constructed; the Root Unit's flag is updated
\* and the Root Unit is ended more than once.

FlagEvents == 2

FlagHandles == 2

FlagModes == {Some(Bool(TRUE)), Some(Bool(FALSE))}

FlagUpdates == {[NoTraceOptions EXCEPT !.privacy = f] : f \in {Bool(TRUE), Bool(FALSE)}}

FlagInits == {[NoPostHogLLMOptions EXCEPT !.defaultPrivacyMode = m] : m \in FlagModes}

FlagInit == client < FlagHandles /\ \E o \in FlagInits : PostHogLLM_init(o)

FlagTrace ==
    /\ units = << >>
    /\ \E f \in {Undefined, Bool(TRUE), Bool(FALSE)} :
          PostHogLLM_trace([SomeTrace EXCEPT !.privacy = f,
                                             !.inputState = Obj("{\"q\":\"hi\"}")])

FlagTraceUpdate == \E i \in Unit, o \in FlagUpdates : Trace_update(i, o)

FlagTraceEnd ==
    /\ CanEnd(FlagEvents)
    /\ \E i \in Unit :
          Trace_end(i, [NoEndOptions EXCEPT !.outputState = Obj("{\"r\":\"ok\"}")])

NextFlag ==
    \/ FlagInit
    \/ FlagTrace
    \/ FlagTraceUpdate
    \/ FlagTraceEnd

SpecFlag == Init /\ [][NextFlag]_vars

\* ------------------------------------------------ claims on the flag

\* the event of End e holds the input state and the output state
HasStates(e) ==
    /\ EventOf(e)["$ai_input_state"] = Some(JSONstringify(ends[e].snap.inputState))
    /\ EventOf(e)["$ai_output_state"] = Some(JSONstringify(ends[e].snap.outputState))

\* the event of End e holds neither
HasNoStates(e) ==
    /\ EventOf(e)["$ai_input_state"] = None
    /\ EventOf(e)["$ai_output_state"] = None

\* an init leaves every unit as it is, and an update that names a flag
\* sets it
FlagSteps ==
    /\ \A o \in FlagInits : PostHogLLM_init(o) => units' = units
    /\ \A i \in Unit, o \in FlagUpdates :
          Trace_update(i, o) => units'[i].privacy = o.privacy

\* C27: the event of each End of a Root Unit holds the input and output
\* state when the unit's flag is off at that End and omits them when it is
\* on, whatever the process-wide default is then; an update that names a
\* flag sets the unit's flag; and an init, whatever default it sets, changes
\* no unit.
C27_FlagAtEachEnd ==
    /\ [](\A e \in SentEnds("trace") :
             IF Truthy(ends[e].before.privacy) THEN HasNoStates(e) ELSE HasStates(e))
    /\ [][FlagSteps]_vars

\* C27 witness: a Root Unit constructed with no flag under a default that
\* was off has sent an event with its states; the default was then set on
\* and the unit's flag stayed off, until an update set it on, and its second
\* event has no states
C27_Witness ==
    \E e1, e2 \in SentEnds("trace") :
        /\ e1 < e2
        /\ ends[e1].unit = ends[e2].unit
        /\ hist[ends[e1].unit].call.privacy = Undefined
        /\ hist[ends[e1].unit].config.defaultPrivacyMode = Bool(FALSE)
        /\ options.defaultPrivacyMode = Bool(TRUE)
        /\ HasStates(e1)
        /\ HasNoStates(e2)

\* ------------------------------------------- specification: sink handle
\* init, getClient and the End of one Root Unit in any order; each init
\* names some of the options and leaves the others out.

HandleHandles == 3

HandleEvents == 2

HandleInits ==
    {[NoPostHogLLMOptions EXCEPT !.apiKey = Some(Str("phc_key")),
                                 !.defaultPrivacyMode = Some(Bool(TRUE))],
     [NoPostHogLLMOptions EXCEPT !.defaultDistinctId = Some(Str("u"))],
     [NoPostHogLLMOptions EXCEPT !.host = Some(Str("https://eu.i.posthog.com")),
                                 !.defaultPrivacyMode = Some(Undefined)]}

HandleInit == client < HandleHandles /\ \E o \in HandleInits : PostHogLLM_init(o)

HandleGetClient == PostHogLLM_getClient

HandleTrace == units = << >> /\ PostHogLLM_trace(SomeTrace)

HandleTraceEnd ==
    /\ CanEnd(HandleEvents)
    /\ \E i \in Unit : Trace_end(i, NoEndOptions)

NextHandle ==
    \/ HandleInit
    \/ HandleGetClient
    \/ HandleTrace
    \/ HandleTraceEnd

SpecHandle == Init /\ [][NextHandle]_vars

\* ------------------------------------------- claims on the sink handle

\* what getClient() does to the handle: the first call builds one from the
\* fallbacks alone and leaves the options as they are, a later call keeps
\* the handle there is
LazyHandle ==
    IF client = 0
    THEN /\ client' # 0
         /\ clientArgs' = [apiKey |-> DefaultApiKey, host |-> DefaultHost]
         /\ options' = options
    ELSE /\ client' = client
         /\ clientArgs' = clientArgs

\* the steps of the handle, on the server side
HandleSteps ==
    serverSide =>
        /\ PostHogLLM_getClient => LazyHandle
        /\ \A i \in Unit :
              Trace_end(i, NoEndOptions) =>
                  /\ LazyHandle
                  /\ Len(sink') = Len(sink) + 1
                  /\ ends'[Len(ends')].sent = Len(sink')
        /\ \A o \in HandleInits :
              PostHogLLM_init(o) =>
                  /\ client' # 0
                  /\ client' # client
                  /\ \A k \in DOMAIN options :
                        options'[k] = IF o[k] = None THEN options[k] ELSE o[k][1]
        /\ client # 0 => client' # 0

\* C28: on the server side, a getClient or an End made while there is no
\* handle builds one from the fallback key and host, leaves the options
\* untouched, and the End emits its event; with a handle in place getClient
\* and End keep that handle; no step makes the handle absent again; and
\* every init builds a new handle and leaves each option it does not name
\* at the value it had.
C28_HandleLifecycle == [][HandleSteps]_vars

\* C28 witness: on the server side the Root Unit, constructed under the
\* built-in defaults, has emitted its event, the handle has been replaced
\* up to the third, the last one by an init that named neither a key nor a
\* privacy default, and the privacy default configured earlier is still set
C28_Witness ==
    /\ serverSide
    /\ client = 3
    /\ Len(ends) > 0
    /\ ends[1].sent = 1
    /\ hist[1].config.defaultPrivacyMode = Bool(FALSE)
    /\ clientArgs.apiKey = DefaultApiKey
    /\ options.defaultPrivacyMode = Bool(TRUE)
    /\ options.defaultDistinctId = Str("u")
    /\ options.apiKey = Str("phc_key")

====
